---- MODULE Spec2Model ----
(***************************************************************************)
(* A model of the ZenReader e-book reader: the IndexedDB storage service,  *)
(* the App component's handlers (import, download, settings, search        *)
(* effect), the Reader component's session, and the search proxy endpoint. *)
(*                                                                         *)
(* Strings the code inspects are sequences of one-character strings, so    *)
(* that toLowerCase, includes, startsWith and trim are computed.           *)
(* Every async handler is split at its awaits: one action per segment.     *)
(* Each specification exercises one part of the program and leaves the     *)
(* variables of the other parts at their initial values.                   *)
(***************************************************************************)
EXTENDS Integers, Sequences, FiniteSets, Bags

VARIABLES
    \* ---- search proxy endpoint (api/search) ----
    apiVariant,      \* which of the two handler sources is deployed
    apiPc,           \* "idle" | "fetching" | "scanning" | "break" | "done"
    apiKeyword,      \* req.query.keyword of the request in progress
    uniqueIds,       \* const uniqueIds = new Set()
    results,         \* const results = []
    apiResponse,     \* what res.status(..).json(..) sent
    upstreamCalls,   \* number of axios.get calls issued by the request
    \* ---- IndexedDB 'ZenReaderDB' (services/storageService) ----
    dbBooks,         \* object store 'books', keyPath 'id'
    dbNotes,         \* object store 'notes', keyPath 'id'
    dbSettings,      \* object store 'settings', out-of-line keys
    \* ---- one searchGlobalNotes call ----
    gsPc,            \* "idle" | "getBooks" | "done"
    gsQuery,         \* its argument
    gsNotes,         \* const notes = await getNotes(), while the call runs
    gsResult,        \* the array it resolves to
    \* ---- one searchFreeBooks call ----
    sfVariant,       \* which of the two sources of searchFreeBooks is built
    sfPc,            \* "idle" | "fetching" | "json" | "done"
    sfQuery,         \* its argument
    sfResponse,      \* how its fetch settled
    sfReturn,        \* how the call settled and with what
    \* ---- App: catalog ----
    clock,           \* Date.now()
    books,           \* useState<Book[]>
    imports,         \* handleAddBook calls in flight
    downloads,       \* handleDownloadAndAdd calls in flight
    isLoading,       \* useState(false)
    alertMsg,        \* the last alert() shown: "none" | "preview" | "failed" | "success" | "corrupt"
    \* ---- App: view ----
    currentView,     \* 'library' | 'reader' | 'search'
    activeBook,      \* useState<Book | null>: <<>> for null, <<b>> for a book
    \* ---- App: settings ----
    settings,        \* useState<UserSettings>
    settingsWrites,  \* saveSettings calls whose put has not committed yet
    loadPc,          \* loadData: "getBooks" | "getSettings" | "set" | "done"
    loaded,          \* [loadedBooks, loadedSettings] of loadData
    lastSaved,       \* history: <<s>> for the settings of the last put that committed
    restarts,        \* page loads after the first
    \* ---- App: search effect ----
    searchQuery,     \* useState('')
    debounce,        \* a setTimeout(performSearch, 500) is pending
    searches,        \* performSearch calls past setIsSearching(true)
    searchResults,   \* useState: note results shown
    externalResults, \* useState: online results shown
    isSearching,     \* useState(false)
    shownQuery,      \* searchQuery of the performSearch that set the results shown
    \* ---- Reader ----
    readerVariant,   \* which of the three Reader sources is built
    mounted,         \* the Reader component is mounted
    loading,         \* useState(true)
    errorMsg,        \* useState<string | null>: "" for null
    bookInstance,    \* bookInstance.current: "none" | "live" | "destroyed"
    displayPc,       \* init effect: "none" | "skipped" | "threw" | "crashed" | "pending" | "shown" | "failed"
    rendered,        \* history: ids of the books ePub(...) was called for
    \* ---- Reader: instances, selection and annotations ----
    liveInstances,   \* history: epub.js books created and not destroyed
    selectionMenu,   \* useState: <<>> for null, <<[cfi, text]>> for a selection
    saveCalls,       \* handleSaveAnnotation calls awaiting storage.saveNote
    saveOutcome,     \* history: how the last saveNote call settled
    \* ---- the store's availability and errors nobody caught ----
    storeAvailable,  \* openDB(DB_NAME, 1, ...) resolves
    uncaught,        \* history: the calls whose rejection no handler caught
    \* ---- one request to the download endpoint ----
    dlVariant,       \* which of the two handler sources is deployed
    dlPc,            \* "idle" | "fetching" | "done"
    dlUrl,           \* req.query.url: <<>> for missing, <<u>> for a string
    dlUpstream,      \* history: how axios.get settled
    dlResponse,      \* the response sent
    \* ---- Reader: what the rendition shows ----
    applied,         \* history: <<>> or <<[theme, fontSize]>> last given to rendition.themes
    captured         \* settings in the closure of the init effect, <<>> before it ran

apiVars == <<apiVariant, apiPc, apiKeyword, uniqueIds, results, apiResponse, upstreamCalls>>
dbVars == <<dbBooks, dbNotes, dbSettings>>
gsVars == <<gsPc, gsQuery, gsNotes, gsResult>>
sfVars == <<sfVariant, sfPc, sfQuery, sfResponse, sfReturn>>
catVars == <<clock, books, imports, downloads, isLoading, alertMsg>>
viewVars == <<currentView, activeBook>>
setVars == <<settings, settingsWrites, loadPc, loaded, lastSaved, restarts>>
srVars == <<searchQuery, debounce, searches, searchResults, externalResults, isSearching, shownQuery>>
rdVars == <<readerVariant, mounted, loading, errorMsg, bookInstance, displayPc, rendered>>
anVars == <<liveInstances, selectionMenu, saveCalls, saveOutcome>>
errVars == <<storeAvailable, uncaught>>
dlVars == <<dlVariant, dlPc, dlUrl, dlUpstream, dlResponse>>
thVars == <<applied, captured>>

nonDownloadApi == <<apiVars, dbVars, gsVars, sfVars, catVars, viewVars, setVars, srVars, rdVars, anVars, errVars, thVars>>

vars == <<apiVars, dbVars, gsVars, sfVars, catVars, viewVars, setVars, srVars, rdVars, anVars, errVars, dlVars, thVars>>

----------------------------------------------------------------------------
(* Download endpoint: src/api/download.ts, src/unnamed/part_000 *)

DlVariants == {"download", "part_000"}

\* no response sent yet
NoDlResponse ==
    [status |-> 0, contentType |-> "none", disposition |-> "none",
     body |-> <<>>, message |-> ""]

\* axios.get not called or not settled
NoUpstream == [kind |-> "none", bytes |-> <<>>, cause |-> ""]

\* files an upstream server may hold
UpstreamFiles == { <<7>>, <<8, 9>>, <<1, 2, 3>> }

\* the bytes that had arrived when a transfer broke off
RECURSIVE ProperPrefixes(_)
ProperPrefixes(bytes) ==
    IF bytes = <<>> THEN {}
    ELSE LET front == SubSeq(bytes, 1, Len(bytes) - 1)
         IN  {front} \cup ProperPrefixes(front)

PartialBytes == UNION {ProperPrefixes(f) : f \in UpstreamFiles}

\* req.query.url: <<>> when the parameter is missing, <<u>> for one value,
\* a longer sequence when the parameter is repeated (an array)
UrlParams ==
    { <<>>, << <<>> >>, << <<"u", "1">>, <<"u", "2">> >>,
      << <<"u", "1">> >>, << <<"u", "2">> >>, << <<"u", "3">> >> }

\* !url || typeof url !== 'string'
UrlRejected(param) == Len(param) # 1 \/ param[1] = <<>>

\* error.message of a rejected axios.get; only download.ts sets a timeout
DlFailures(variant) ==
    {"Network Error", "Request failed with status code 404", "aborted"} \cup
    (IF variant = "download" THEN {"timeout of 15000ms exceeded"} ELSE {})

\* the text sent with the 500
DlFailureMessage(variant, cause) ==
    IF variant = "download" THEN "Download failed: " \o cause
                            ELSE "Proxy Download Failed"

\* handler entry: the url check, then axios.get is issued
DlRequest(param) ==
    /\ dlPc \in {"idle", "done"}
    /\ dlUrl' = param
    /\ dlUpstream' = NoUpstream
    /\ IF UrlRejected(param)
       THEN /\ dlPc' = "done"
            /\ dlResponse' = [NoDlResponse EXCEPT !.status = 400,
                                                 !.message = "Missing url parameter"]
       ELSE /\ dlPc' = "fetching"
            /\ dlResponse' = NoDlResponse
    /\ UNCHANGED <<dlVariant, nonDownloadApi>>

\* axios.get resolves with the whole file: the headers are set and the
\* bytes are sent with the default status 200
DlUpstreamOk(file) ==
    /\ dlPc = "fetching"
    /\ dlPc' = "done"
    /\ dlUpstream' = [kind |-> "ok", bytes |-> file, cause |-> ""]
    /\ dlResponse' = [NoDlResponse EXCEPT !.status = 200,
                                         !.contentType = "application/epub+zip",
                                         !.disposition = "attachment",
                                         !.body = file]
    /\ UNCHANGED <<dlVariant, dlUrl, nonDownloadApi>>

\* a catch block that forwards what had arrived
DlUpstreamFailsForward(cause, arrived) ==
    /\ dlPc = "fetching"
    /\ dlPc' = "done"
    /\ dlUpstream' = [kind |-> "failed", bytes |-> arrived, cause |-> cause]
    /\ dlResponse' = [NoDlResponse EXCEPT !.status = 200,
                                         !.contentType = "application/epub+zip",
                                         !.disposition = "attachment",
                                         !.body = arrived]
    /\ UNCHANGED <<dlVariant, dlUrl, nonDownloadApi>>

\* axios.get rejects, with some or none of the file arrived: the catch
\* block sends 500 and a text
DlUpstreamFails(cause, arrived) ==
    /\ dlPc = "fetching"
    /\ dlPc' = "done"
    /\ dlUpstream' = [kind |-> "failed", bytes |-> arrived, cause |-> cause]
    /\ dlResponse' = [NoDlResponse EXCEPT !.status = 500,
                                         !.message = DlFailureMessage(dlVariant, cause)]
    /\ UNCHANGED <<dlVariant, dlUrl, nonDownloadApi>>

----------------------------------------------------------------------------
(* Strings *)

UpperChars == <<"A", "B", "D", "G", "H", "I", "O", "U">>
LowerChars == <<"a", "b", "d", "g", "h", "i", "o", "u">>

\* String.prototype.toLowerCase, one character
ToLowerChar(c) ==
    IF \E i \in DOMAIN UpperChars : UpperChars[i] = c
    THEN LowerChars[CHOOSE i \in DOMAIN UpperChars : UpperChars[i] = c]
    ELSE c

\* String.prototype.toLowerCase
ToLowerCase(s) == [i \in DOMAIN s |-> ToLowerChar(s[i])]

\* String.prototype.startsWith
StartsWith(s, p) ==
    /\ Len(p) <= Len(s)
    /\ SubSeq(s, 1, Len(p)) = p

\* String.prototype.includes
Includes(s, p) ==
    \E i \in 0..(Len(s) - Len(p)) : SubSeq(s, i + 1, i + Len(p)) = p

\* String.prototype.trim
RECURSIVE TrimStart(_)
TrimStart(s) == IF s # <<>> /\ Head(s) = " " THEN TrimStart(Tail(s)) ELSE s

RECURSIVE TrimEnd(_)
TrimEnd(s) == IF s # <<>> /\ s[Len(s)] = " " THEN TrimEnd(SubSeq(s, 1, Len(s) - 1)) ELSE s

Trim(s) == TrimEnd(TrimStart(s))

DigitChars == <<"0", "1", "2", "3", "4", "5", "6", "7", "8", "9">>

\* Number.prototype.toString of a non-negative integer
RECURSIVE toString(_)
toString(n) ==
    IF n < 10 THEN <<DigitChars[n + 1]>>
    ELSE toString(n \div 10) \o <<DigitChars[(n % 10) + 1]>>

STR_audio == <<"a", "u", "d", "i", "o">>
STR_haodoo == <<"h", "a", "o", "d", "o", "o", "-">>
STR_fallback == <<"g", "u", "t", "e", "n", "b", "e", "r", "g", "-", "f", "a", "l", "l", "b", "a", "c", "k">>
STR_hash == <<"#">>
STR_mock_haodoo == <<"m", "o", "c", "k", "-", "h", "a", "o", "d", "o", "o">>
STR_url_prefix == <<"h", "t", "t", "p", ":", "/", "/", "w", "w", "w", ".", "h", "a", "o", "d", "o", "o", ".", "n", "e", "t", "/", "?", "M", "=", "d", "&", "P", "=">>
STR_epub == <<".", "e", "p", "u", "b">>
STR_gutenberg_url == <<"h", "t", "t", "p", "s", ":", "/", "/", "w", "w", "w", ".", "g", "u", "t", "e", "n", "b", "e", "r", "g", ".", "o", "r", "g", "/", "e", "b", "o", "o", "k", "s", "/", "1", "5", "1", "3", ".", "e", "p", "u", "b", ".", "i", "m", "a", "g", "e", "s">>
STR_local == <<"l", "o", "c", "a", "l">>
STR_Haodoo == <<"H", "a", "o", "d", "o", "o">>
STR_Gutenberg == <<"G", "u", "t", "e", "n", "b", "e", "r", "g">>
STR_Demo == <<"D", "e", "m", "o">>
STR_Shakespeare == <<"W", ".", "S", "h", "a", "k", "e", "s", "p", "e", "a", "r", "e">>
STR_HaodooCollection == <<"H", "a", "o", "d", "o", "o", " ", "c", "o", "l", "l", "e", "c", "t", "i", "o", "n">>
STR_System == <<"S", "y", "s", "t", "e", "m">>
STR_application_json ==
    <<"a", "p", "p", "l", "i", "c", "a", "t", "i", "o", "n", "/", "j", "s", "o", "n">>
STR_text_html == <<"t", "e", "x", "t", "/", "h", "t", "m", "l">>
STR_charset == <<";", " ", "c", "h", "a", "r", "s", "e", "t", "=", "u", "t", "f", "-", "8">>

----------------------------------------------------------------------------
(* Search proxy endpoint: src/api/search.ts and src/unnamed/part_001 *)

nonApi == <<dbVars, gsVars, sfVars, catVars, viewVars, setVars, srVars, rdVars, anVars, errVars, dlVars, thVars>>

\* The two handler sources kept in the repository.
ApiVariants == {"api_search", "part_001"}

\* Captures of /\?M=book&P=([A-Za-z0-9]+)/g that an upstream page may hold.
UpstreamIds ==
    { <<"1">>, <<"2">>, <<"3">>, <<"4">>, <<"5">>, <<"6">>,
      <<"a", "u", "d", "i", "o", "1">>, <<"A", "u", "d", "i", "o", "2">>,
      <<"a", "u", "d", "i">> }

Keywords == {<<>>, <<"k">>}

SearchCap == 5

\* the condition of the if inside the for loop
ApiAccepts(variant, seen, bookId) ==
    IF variant = "part_001"
    THEN bookId \notin seen /\ ~StartsWith(ToLowerCase(bookId), STR_audio)
    ELSE bookId \notin seen

\* results.push({...}) of one match
ApiEntry(keyword, bookId) ==
    [ id          |-> STR_haodoo \o bookId,
      title       |-> keyword \o bookId,
      author      |-> STR_HaodooCollection,
      source      |-> STR_Haodoo,
      downloadUrl |-> STR_url_prefix \o bookId \o STR_epub ]

\* author of the hard-coded entry: 'William Shakespeare', 'System' in part_001
ApiFallbackAuthor(variant) ==
    IF variant = "part_001" THEN STR_System ELSE STR_Shakespeare

\* the hard-coded entry returned when results is empty
ApiFallbackEntry(keyword) ==
    [ id          |-> STR_fallback,
      title       |-> keyword,
      author      |-> STR_Shakespeare,
      source      |-> STR_Gutenberg,
      downloadUrl |-> STR_gutenberg_url ]

\* no res.status(..) call has been made yet
NoResponse == [status |-> 0, body |-> <<>>, error |-> <<>>, details |-> <<>>]

\* error.message of a rejected axios.get: the 8 s timeout, no connection,
\* a status outside 2xx
UpstreamFailures ==
    {"timeout of 8000ms exceeded", "Network Error", "Request failed with status code 503"}

\* if (results.length >= 5) break;
ApiLoopBreaks(res) == Len(res) >= SearchCap

\* handler entry: the keyword check, then axios.get is issued
ApiRequest(keyword) ==
    /\ apiPc \in {"idle", "done"}
    /\ apiKeyword' = keyword
    /\ uniqueIds' = {}
    /\ results' = <<>>
    /\ IF keyword = <<>>
       THEN /\ apiPc' = "done"
            /\ apiResponse' = [NoResponse EXCEPT !.status = 400,
                                                  !.error = <<"Missing keyword">>]
            /\ upstreamCalls' = 0
       ELSE /\ apiPc' = "fetching"
            /\ apiResponse' = NoResponse
            /\ upstreamCalls' = 1
    /\ UNCHANGED <<apiVariant, nonApi>>

\* a catch block that answers with an empty list
ApiUpstreamFailEmpty(cause) ==
    /\ apiPc = "fetching"
    /\ apiPc' = "done"
    /\ apiResponse' = [NoResponse EXCEPT !.status = 200]
    /\ UNCHANGED <<apiVariant, apiKeyword, uniqueIds, results, upstreamCalls, nonApi>>

\* axios.get rejects (network error, timeout): the catch block answers
\* 500 with { error: '無法連接到好讀網', details: error.message }
ApiUpstreamFail(cause) ==
    /\ apiPc = "fetching"
    /\ apiPc' = "done"
    /\ apiResponse' = [NoResponse EXCEPT !.status = 500,
                                          !.error = <<"cannot reach Haodoo">>,
                                          !.details = <<cause>>]
    /\ UNCHANGED <<apiVariant, apiKeyword, uniqueIds, results, upstreamCalls, nonApi>>

\* axios.get resolves; the page is decoded and matched
ApiUpstreamOk ==
    /\ apiPc = "fetching"
    /\ apiPc' = "scanning"
    /\ UNCHANGED <<apiVariant, apiKeyword, uniqueIds, results, apiResponse, upstreamCalls, nonApi>>

\* one iteration of for (const match of matches)
ApiScanMatch(bookId) ==
    /\ apiPc = "scanning"
    /\ IF ApiAccepts(apiVariant, uniqueIds, bookId)
       THEN /\ uniqueIds' = uniqueIds \cup {bookId}
            /\ results' = Append(results, ApiEntry(apiKeyword, bookId))
       ELSE UNCHANGED <<uniqueIds, results>>
    /\ apiPc' = IF ApiLoopBreaks(results') THEN "break" ELSE "scanning"
    /\ UNCHANGED <<apiVariant, apiKeyword, apiResponse, upstreamCalls, nonApi>>

\* the loop is left (matches exhausted, or break) and the response is sent
ApiRespond ==
    /\ apiPc \in {"scanning", "break"}
    /\ apiPc' = "done"
    /\ apiResponse' =
          IF Len(results) = 0
          THEN [NoResponse EXCEPT !.status = 200,
                   !.body = <<[ApiFallbackEntry(apiKeyword) EXCEPT
                                  !.author = ApiFallbackAuthor(apiVariant)]>>]
          ELSE [NoResponse EXCEPT !.status = 200, !.body = results]
    /\ UNCHANGED <<apiVariant, apiKeyword, uniqueIds, results, upstreamCalls, nonApi>>

----------------------------------------------------------------------------
(* Storage service: src/services/storageService.ts *)

nonStorage == <<apiVars, catVars, viewVars, setVars, srVars, rdVars, anVars, errVars, dlVars, thVars>>

\* The characters of keys, in UTF-16 code unit order (the order of IndexedDB
\* string keys).
CharOrder ==
    << "-", "0", "1", "2", "3", "4", "5", "6", "7", "8", "9",
       "A", "B", "D", "I", "O", "U",
       "a", "b", "c", "d", "e", "f", "g", "h", "i", "k", "l", "m",
       "n", "o", "r", "t", "u" >>

CharCode(c) == CHOOSE i \in DOMAIN CharOrder : CharOrder[i] = c

\* s < t as IndexedDB compares two string keys
RECURSIVE KeyLess(_, _)
KeyLess(s, t) ==
    IF t = <<>> THEN FALSE
    ELSE IF s = <<>> THEN TRUE
    ELSE IF Head(s) = Head(t) THEN KeyLess(Tail(s), Tail(t))
    ELSE CharCode(Head(s)) < CharCode(Head(t))

\* db.put(store, record) on a store with keyPath 'id': add or overwrite
DbPut(store, record) == {r \in store : r.id # record.id} \cup {record}

\* db.delete(store, id)
DbDelete(store, id) == {r \in store : r.id # id}

\* db.getAll(store): the records in key order
RECURSIVE DbGetAll(_)
DbGetAll(store) ==
    IF store = {} THEN <<>>
    ELSE LET first == CHOOSE r \in store : \A o \in store : o.id = r.id \/ KeyLess(r.id, o.id)
         IN  <<first>> \o DbGetAll(store \ {first})

\* a put under another key
DbPutSettingsElsewhere(store, newSettings) ==
    {e \in store : e.key # "latest"} \cup {[key |-> "latest", value |-> newSettings]}

\* db.put(STORES.SETTINGS, settings, 'current')
DbPutSettings(store, newSettings) ==
    {e \in store : e.key # "current"} \cup {[key |-> "current", value |-> newSettings]}

ThemeTypes == {"light", "parchment", "green", "dark"}

DefaultFontSize == 100

\* the literal getSettings falls back to, and App's initial useState value
DefaultSettings ==
    [theme |-> "parchment", fontSize |-> DefaultFontSize, fontFamily |-> "Noto Serif TC"]

\* getSettings: db.get(STORES.SETTINGS, 'current') || { defaults }
GetSettings(store) ==
    IF \E e \in store : e.key = "current"
    THEN (CHOOSE e \in store : e.key = "current").value
    ELSE DefaultSettings

\* a filter that looks at the excerpt only
NoteMatchesTextOnly(n, lowerQuery) == Includes(ToLowerCase(n.text), lowerQuery)

\* the predicate of notes.filter in searchGlobalNotes
NoteMatches(n, lowerQuery) ==
    \/ Includes(ToLowerCase(n.text), lowerQuery)
    \/ (n.annotation # <<>> /\ Includes(ToLowerCase(n.annotation), lowerQuery))

\* Array.prototype.filter with that predicate
RECURSIVE Filter(_, _)
Filter(seq, lowerQuery) ==
    IF seq = <<>> THEN <<>>
    ELSE IF NoteMatches(Head(seq), lowerQuery)
         THEN <<Head(seq)>> \o Filter(Tail(seq), lowerQuery)
         ELSE Filter(Tail(seq), lowerQuery)

\* books.find(b => b.id === note.bookId): <<b>> when found, <<>> for undefined
FindBook(bookList, bookId) ==
    IF \E i \in DOMAIN bookList : bookList[i].id = bookId
    THEN <<bookList[CHOOSE i \in DOMAIN bookList :
                    /\ bookList[i].id = bookId
                    /\ \A j \in DOMAIN bookList : bookList[j].id = bookId => i <= j]>>
    ELSE <<>>

\* the body of searchGlobalNotes once notes and books are read
SearchGlobalNotes(notes, bookList, query) ==
    LET lowerQuery == ToLowerCase(query)
        filtered == Filter(notes, lowerQuery)
    IN  [i \in DOMAIN filtered |->
            [note |-> filtered[i], book |-> FindBook(bookList, filtered[i].bookId)]]

IdsOf(store) == {r.id : r \in store}

\* Inputs of the storage-level specification
StBookIds == { <<"1">>, <<"2">> }
StNoteIds == { <<"3">>, <<"4">> }
NoteContents ==
    { [text |-> <<"A", "b">>, annotation |-> <<>>],
      [text |-> <<"a">>,      annotation |-> <<"B">>],
      [text |-> <<"a">>,      annotation |-> <<>>] }
NoteQueries == { <<>>, <<"B">>, <<"a", "b">>, <<"b", "b">> }

StBook(id) ==
    [id |-> id, data |-> [present |-> TRUE, bytes |-> <<1>>], source |-> STR_local]

\* saveBook(book)
SaveBook(book) ==
    /\ dbBooks' = DbPut(dbBooks, book)
    /\ UNCHANGED <<dbNotes, dbSettings, gsVars, sfVars, nonStorage>>

\* a deletion that cascades to the notes of the book
DeleteBookCascade(bookId) ==
    /\ dbBooks' = DbDelete(dbBooks, bookId)
    /\ dbNotes' = {n \in dbNotes : n.bookId # bookId}
    /\ UNCHANGED <<dbSettings, gsVars, sfVars, nonStorage>>

\* deleteBook(bookId)
DeleteBook(bookId) ==
    /\ dbBooks' = DbDelete(dbBooks, bookId)
    /\ UNCHANGED <<dbNotes, dbSettings, gsVars, sfVars, nonStorage>>

\* saveNote(note); the Reader builds note.bookId from the book it shows
SaveNote(note) ==
    /\ note.bookId \in IdsOf(dbBooks)
    /\ dbNotes' = DbPut(dbNotes, note)
    /\ UNCHANGED <<dbBooks, dbSettings, gsVars, sfVars, nonStorage>>

\* deleteNote(noteId)
DeleteNote(noteId) ==
    /\ dbNotes' = DbDelete(dbNotes, noteId)
    /\ UNCHANGED <<dbBooks, dbSettings, gsVars, sfVars, nonStorage>>

\* searchGlobalNotes(query) up to its first await: getNotes() resolves
SearchGlobalNotesGetNotes(query) ==
    /\ gsPc \in {"idle", "done"}
    /\ gsPc' = "getBooks"
    /\ gsQuery' = query
    /\ gsNotes' = DbGetAll(dbNotes)
    /\ gsResult' = <<>>
    /\ UNCHANGED <<dbVars, sfVars, nonStorage>>

\* getBooks() resolves; filter and map run and the call returns
SearchGlobalNotesReturn ==
    /\ gsPc = "getBooks"
    /\ gsPc' = "done"
    /\ gsResult' = SearchGlobalNotes(gsNotes, DbGetAll(dbBooks), gsQuery)
    /\ gsNotes' = <<>>
    /\ UNCHANGED <<gsQuery, dbVars, sfVars, nonStorage>>

----------------------------------------------------------------------------
(* App: catalog handlers, src/App.tsx *)

nonCatalog == <<apiVars, gsVars, sfVars, setVars, srVars, rdVars, anVars, errVars, dlVars, thVars, dbNotes, dbSettings, activeBook>>

MaxClock == 1
MaxImports == 2
MaxDownloads == 2

\* contents of the files a user may pick
FileBytes == { <<1>>, <<2, 3>> }

\* bodies the download proxy may answer with
ResponseBodies == { <<7>>, <<8, 9>> }


\* the first placeholder entry searchFreeBooks fabricates
MockEntry(query) ==
    [ id          |-> STR_mock_haodoo,
      title       |-> query,
      source      |-> STR_Demo,
      downloadUrl |-> STR_hash ]

\* entries the search overlay may list
ExternalBooks ==
    { MockEntry(<<"k">>), ApiEntry(<<"k">>, <<"1">>), ApiFallbackEntry(<<"k">>) }

\* a task slot that holds no Book yet
NoBook == [id |-> <<>>, data |-> [present |-> FALSE, bytes |-> <<>>], source |-> <<>>]

\* the calls in flight form a bag: one call leaves, another takes its place
Replace(bag, old, new) == (bag (-) SetToBag({old})) (+) SetToBag({new})
Without(bag, old) == bag (-) SetToBag({old})

\* const newBook: Book = {...} in reader.onload
NewLocalBook(bytes, now) ==
    [ id      |-> toString(now),
      data    |-> [present |-> TRUE, bytes |-> bytes],
      source  |-> STR_local ]

\* const newBook: Book = {...} in handleDownloadAndAdd
NewDownloadedBook(externalBook, bytes) ==
    [ id      |-> externalBook.id,
      data    |-> [present |-> TRUE, bytes |-> bytes],
      source  |-> ToLowerCase(externalBook.source) ]

\* a sentinel test that knows the mock marker only
IsMockUrlOnly(url) == Includes(url, STR_mock_haodoo)

\* externalBook.downloadUrl === '#' || externalBook.downloadUrl.includes('mock-haodoo')
IsPlaceholderUrl(url) == url = STR_hash \/ Includes(url, STR_mock_haodoo)

\* the Library (and with it the import button and the result list) is rendered
LibraryShown == ~(currentView = "reader" /\ activeBook # <<>>)

\* time passes
Tick ==
    /\ clock < MaxClock
    /\ clock' = clock + 1
    /\ UNCHANGED <<books, imports, downloads, isLoading, alertMsg, currentView, dbBooks, nonCatalog>>

\* handleAddBook(file): reader.readAsArrayBuffer(file) is started
HandleAddBook(bytes) ==
    /\ LibraryShown
    /\ BagCardinality(imports) < MaxImports
    /\ imports' = imports (+) SetToBag({[pc |-> "reading", bytes |-> bytes, book |-> NoBook]})
    /\ UNCHANGED <<clock, books, downloads, isLoading, alertMsg, currentView, dbBooks, nonCatalog>>

\* reader.onload up to await storage.saveBook(newBook)
AddBookOnload(t) ==
    /\ t.pc = "reading"
    /\ imports' = Replace(imports, t,
                      [t EXCEPT !.pc = "saving", !.book = NewLocalBook(t.bytes, clock)])
    /\ UNCHANGED <<clock, books, downloads, isLoading, alertMsg, currentView, dbBooks, nonCatalog>>

\* saveBook's db.put commits
AddBookSaved(t) ==
    /\ t.pc = "saving"
    /\ dbBooks' = DbPut(dbBooks, t.book)
    /\ imports' = Replace(imports, t, [t EXCEPT !.pc = "listing"])
    /\ UNCHANGED <<clock, books, downloads, isLoading, alertMsg, currentView, nonCatalog>>

\* a refresh that appends the new book to the list held instead of re-reading
AddBookListedAppend(t) ==
    /\ t.pc = "listing"
    /\ books' = Append(books, t.book)
    /\ imports' = Without(imports, t)
    /\ UNCHANGED <<clock, downloads, isLoading, alertMsg, currentView, dbBooks, nonCatalog>>

\* getBooks() resolves and setBooks(updatedBooks) runs.  The getAll request
\* succeeds in one task and the promise chain up to setBooks runs in the
\* microtasks of that task, before any other store event is delivered, so
\* the read and the set are one step.
AddBookListed(t) ==
    /\ t.pc = "listing"
    /\ books' = DbGetAll(dbBooks)
    /\ imports' = Without(imports, t)
    /\ UNCHANGED <<clock, downloads, isLoading, alertMsg, currentView, dbBooks, nonCatalog>>

\* FileReader reports an error (there is no onerror handler), or saveBook
\* or getBooks rejects inside onload: the call ends and sets nothing
AddBookFailed(t) ==
    /\ t.pc \in {"reading", "saving", "listing"}
    /\ imports' = Without(imports, t)
    /\ UNCHANGED <<clock, books, downloads, isLoading, alertMsg, currentView, dbBooks, nonCatalog>>

\* handleDownloadAndAdd(externalBook) up to await fetch(downloadApiUrl);
\* confirmed is the answer to window.confirm.  The handler never reads
\* isLoading: the loading overlay is drawn over the buttons but a button
\* that keeps the focus is still activated from the keyboard.
HandleDownloadAndAdd(externalBook, confirmed) ==
    /\ LibraryShown
    /\ IF IsPlaceholderUrl(externalBook.downloadUrl)
       THEN /\ alertMsg' = "preview"
            /\ UNCHANGED <<isLoading, downloads>>
       ELSE IF ~confirmed
       THEN UNCHANGED <<alertMsg, isLoading, downloads>>
       ELSE /\ BagCardinality(downloads) < MaxDownloads
            /\ isLoading' = TRUE
            /\ downloads' = downloads (+)
                    SetToBag({[pc |-> "fetching", eb |-> externalBook, book |-> NoBook]})
            /\ UNCHANGED alertMsg
    /\ UNCHANGED <<clock, books, imports, currentView, dbBooks, nonCatalog>>

\* a failure path that stores what it has of the book
DownloadFailedKeepsPartial(t) ==
    /\ t.pc \in {"fetching", "saving", "listing"}
    /\ alertMsg' = "failed"
    /\ isLoading' = FALSE
    /\ downloads' = Without(downloads, t)
    /\ dbBooks' = DbPut(dbBooks, NewDownloadedBook(t.eb, <<>>))
    /\ UNCHANGED <<clock, books, imports, currentView, nonCatalog>>

\* a catch that is not followed by a finally
DownloadFailedNoFinally(t) ==
    /\ t.pc \in {"fetching", "saving", "listing"}
    /\ alertMsg' = "failed"
    /\ downloads' = Without(downloads, t)
    /\ UNCHANGED <<isLoading, clock, books, imports, currentView, dbBooks, nonCatalog>>

\* fetch rejects, or !response.ok, or arrayBuffer(), saveBook or getBooks
\* rejects: catch, then finally
DownloadFailed(t) ==
    /\ t.pc \in {"fetching", "saving", "listing"}
    /\ alertMsg' = "failed"
    /\ isLoading' = FALSE
    /\ downloads' = Without(downloads, t)
    /\ UNCHANGED <<clock, books, imports, currentView, dbBooks, nonCatalog>>

\* response.ok and arrayBuffer() resolves: newBook is built, saveBook is called
DownloadBodyRead(t, bytes) ==
    /\ t.pc = "fetching"
    /\ downloads' = Replace(downloads, t,
                        [t EXCEPT !.pc = "saving", !.book = NewDownloadedBook(t.eb, bytes)])
    /\ UNCHANGED <<clock, books, imports, isLoading, alertMsg, currentView, dbBooks, nonCatalog>>

\* saveBook's db.put commits
DownloadSaved(t) ==
    /\ t.pc = "saving"
    /\ dbBooks' = DbPut(dbBooks, t.book)
    /\ downloads' = Replace(downloads, t, [t EXCEPT !.pc = "listing"])
    /\ UNCHANGED <<clock, books, imports, isLoading, alertMsg, currentView, nonCatalog>>

\* setBooks(await getBooks()), the success alert, setCurrentView, then finally
DownloadListed(t) ==
    /\ t.pc = "listing"
    /\ books' = DbGetAll(dbBooks)
    /\ alertMsg' = "success"
    /\ currentView' = "library"
    /\ isLoading' = FALSE
    /\ downloads' = Without(downloads, t)
    /\ UNCHANGED <<clock, imports, dbBooks, nonCatalog>>


----------------------------------------------------------------------------
(* App: view and settings, src/App.tsx; the Reader's buttons *)

MaxPendingWrites == 2
MaxRestarts == 1

MinFontSize == 80
MaxFontSize == 180
FontStep == 10

MathMin(a, b) == IF a < b THEN a ELSE b
MathMax(a, b) == IF a > b THEN a ELSE b

\* the Reader is rendered: currentView === 'reader' && activeBook
ReaderShown == currentView = "reader" /\ activeBook # <<>>

\* an increment that does not clamp
IncrementUnclamped(fontSize) == fontSize + FontStep

\* Math.min(180, settings.fontSize + 10)
Increment(fontSize) == MathMin(MaxFontSize, fontSize + FontStep)

\* Math.max(80, settings.fontSize - 10)
Decrement(fontSize) == MathMax(MinFontSize, fontSize - FontStep)

\* renditionRef.current is set: renderTo has returned in this Reader
HasRendition == mounted /\ displayPc \in {"pending", "shown", "failed"}

\* what applyTheme gives the rendition: the colours of settings.theme and
\* settings.fontSize as a percentage
Look(s) == [theme |-> s.theme, fontSize |-> s.fontSize]

\* the settings effect of the Reader, run after a render with new settings:
\* if (renditionRef.current) applyTheme(renditionRef.current)
SettingsEffect(newSettings) ==
    IF HasRendition THEN <<Look(newSettings)>> ELSE applied

\* a Reader without the settings effect
HandleUpdateSettingsNoEffect(newSettings) ==
    /\ ReaderShown
    /\ Len(settingsWrites) < MaxPendingWrites
    /\ settings' = newSettings
    /\ settingsWrites' = Append(settingsWrites, newSettings)
    /\ UNCHANGED <<loadPc, loaded, lastSaved, restarts, thVars>>
    /\ UNCHANGED <<apiVars, dbVars, gsVars, sfVars, catVars, viewVars, srVars, rdVars, anVars, errVars, dlVars>>

\* handleUpdateSettings(newSettings): setSettings, then saveSettings is
\* called and not awaited.  Each saveSettings opens the database and puts;
\* IndexedDB serves the opens and the transactions on one store in the order
\* they were made, so the pending puts form a queue.
HandleUpdateSettings(newSettings) ==
    /\ ReaderShown
    /\ Len(settingsWrites) < MaxPendingWrites
    /\ settings' = newSettings
    /\ settingsWrites' = Append(settingsWrites, newSettings)
    /\ applied' = SettingsEffect(newSettings)
    /\ UNCHANGED <<loadPc, loaded, lastSaved, restarts, captured>>
    /\ UNCHANGED <<apiVars, dbVars, gsVars, sfVars, catVars, viewVars, srVars, rdVars, anVars, errVars, dlVars>>

\* onClick of a theme button: { ...settings, theme: t }
ThemeButton(t) == HandleUpdateSettings([settings EXCEPT !.theme = t])

\* onClick of A+
FontPlusButton == HandleUpdateSettings([settings EXCEPT !.fontSize = Increment(settings.fontSize)])

\* onClick of A-
FontMinusButton == HandleUpdateSettings([settings EXCEPT !.fontSize = Decrement(settings.fontSize)])

\* a store that serves the newest pending put first
SaveSettingsCommitNewestFirst ==
    /\ settingsWrites # <<>>
    /\ dbSettings' = DbPutSettings(dbSettings, settingsWrites[Len(settingsWrites)])
    /\ lastSaved' = <<settingsWrites[Len(settingsWrites)]>>
    /\ settingsWrites' = SubSeq(settingsWrites, 1, Len(settingsWrites) - 1)
    /\ UNCHANGED <<settings, loadPc, loaded, restarts, dbBooks, dbNotes>>
    /\ UNCHANGED <<apiVars, gsVars, sfVars, catVars, viewVars, srVars, rdVars, anVars, errVars, dlVars, thVars>>

\* the put of the oldest pending saveSettings commits
SaveSettingsCommit ==
    /\ settingsWrites # <<>>
    /\ dbSettings' = DbPutSettings(dbSettings, Head(settingsWrites))
    /\ lastSaved' = <<Head(settingsWrites)>>
    /\ settingsWrites' = Tail(settingsWrites)
    /\ UNCHANGED <<settings, loadPc, loaded, restarts, dbBooks, dbNotes>>
    /\ UNCHANGED <<apiVars, gsVars, sfVars, catVars, viewVars, srVars, rdVars, anVars, errVars, dlVars, thVars>>

\* the page is loaded again: every useState is back at its initial value,
\* calls in flight are gone (a pending put that did not commit before is
\* lost), the stores persist, and the mount effect starts loadData
Restart ==
    /\ restarts < MaxRestarts
    /\ restarts' = restarts + 1
    /\ books' = <<>>
    /\ imports' = EmptyBag
    /\ downloads' = EmptyBag
    /\ isLoading' = FALSE
    /\ alertMsg' = "none"
    /\ currentView' = "library"
    /\ activeBook' = <<>>
    /\ settings' = DefaultSettings
    /\ settingsWrites' = <<>>
    /\ loadPc' = "getBooks"
    /\ loaded' = [books |-> <<>>, settings |-> DefaultSettings]
    /\ searchQuery' = <<>>
    /\ debounce' = FALSE
    /\ searches' = EmptyBag
    /\ searchResults' = <<>>
    /\ externalResults' = <<>>
    /\ isSearching' = FALSE
    /\ shownQuery' = <<>>
    /\ mounted' = FALSE
    /\ loading' = TRUE
    /\ errorMsg' = ""
    /\ bookInstance' = "none"
    /\ displayPc' = "none"
    /\ liveInstances' = 0
    /\ selectionMenu' = <<>>
    /\ saveCalls' = EmptyBag
    /\ saveOutcome' = "none"
    /\ uncaught' = {}
    /\ applied' = <<>>
    /\ captured' = <<>>
    /\ UNCHANGED <<clock, lastSaved, readerVariant, rendered, storeAvailable>>
    /\ UNCHANGED <<apiVars, dbVars, gsVars, sfVars, dlVars>>

\* loadData: storage.getBooks() resolves
LoadDataGetBooks ==
    /\ loadPc = "getBooks"
    /\ loaded' = [loaded EXCEPT !.books = DbGetAll(dbBooks)]
    /\ loadPc' = "getSettings"
    /\ UNCHANGED <<settings, settingsWrites, lastSaved, restarts>>
    /\ UNCHANGED <<apiVars, dbVars, gsVars, sfVars, catVars, viewVars, srVars, rdVars, anVars, errVars, dlVars, thVars>>

\* loadData: storage.getSettings() resolves
LoadDataGetSettings ==
    /\ loadPc = "getSettings"
    /\ loaded' = [loaded EXCEPT !.settings = GetSettings(dbSettings)]
    /\ loadPc' = "set"
    /\ UNCHANGED <<settings, settingsWrites, lastSaved, restarts>>
    /\ UNCHANGED <<apiVars, dbVars, gsVars, sfVars, catVars, viewVars, srVars, rdVars, anVars, errVars, dlVars, thVars>>

\* loadData after Promise.all: setBooks(loadedBooks); setSettings(loadedSettings)
LoadDataSet ==
    /\ loadPc = "set"
    /\ books' = loaded.books
    /\ settings' = loaded.settings
    /\ loadPc' = "done"
    /\ loaded' = [books |-> <<>>, settings |-> DefaultSettings]
    /\ applied' = SettingsEffect(loaded.settings)
    /\ UNCHANGED <<settingsWrites, lastSaved, restarts, captured>>
    /\ UNCHANGED <<clock, imports, downloads, isLoading, alertMsg>>
    /\ UNCHANGED <<apiVars, dbVars, gsVars, sfVars, viewVars, srVars, rdVars, anVars, errVars, dlVars>>

\* an open that does not look at the data
HandleOpenBookUnchecked(book) ==
    /\ LibraryShown
    /\ \E i \in DOMAIN books : books[i] = book
    /\ activeBook' = <<book>>
    /\ currentView' = "reader"
    /\ mounted' = TRUE
    /\ loading' = TRUE
    /\ errorMsg' = ""
    /\ bookInstance' = "none"
    /\ displayPc' = "none"
    /\ selectionMenu' = <<>>
    /\ applied' = <<>>
    /\ captured' = <<>>
    /\ UNCHANGED <<alertMsg, readerVariant, rendered, liveInstances, saveCalls, saveOutcome>>
    /\ UNCHANGED <<clock, books, imports, downloads, isLoading>>
    /\ UNCHANGED <<apiVars, dbVars, gsVars, sfVars, setVars, srVars, errVars, dlVars>>

\* an open that can be made while a session is open and that starts the new
\* session without the cleanup of the one before
HandleOpenBookNoCleanup(book) ==
    /\ \E i \in DOMAIN books : books[i] = book
    /\ IF ~book.data.present
       THEN /\ alertMsg' = "corrupt"
            /\ UNCHANGED <<viewVars, rdVars, anVars, thVars>>
       ELSE /\ activeBook' = <<book>>
            /\ currentView' = "reader"
            /\ mounted' = TRUE
            /\ loading' = TRUE
            /\ errorMsg' = ""
            /\ bookInstance' = "none"
            /\ displayPc' = "none"
            /\ selectionMenu' = <<>>
            /\ applied' = <<>>
            /\ captured' = <<>>
            /\ UNCHANGED <<alertMsg, readerVariant, rendered, liveInstances, saveCalls, saveOutcome>>
    /\ UNCHANGED <<clock, books, imports, downloads, isLoading>>
    /\ UNCHANGED <<apiVars, dbVars, gsVars, sfVars, setVars, srVars, errVars, dlVars>>

\* handleOpenBook(book) for a book of the list; when it sets activeBook and
\* currentView the Reader is mounted with its initial state
HandleOpenBook(book) ==
    /\ LibraryShown
    /\ \E i \in DOMAIN books : books[i] = book
    /\ IF ~book.data.present
       THEN /\ alertMsg' = "corrupt"
            /\ UNCHANGED <<viewVars, rdVars, anVars, thVars>>
       ELSE /\ activeBook' = <<book>>
            /\ currentView' = "reader"
            /\ mounted' = TRUE
            /\ loading' = TRUE
            /\ errorMsg' = ""
            /\ bookInstance' = "none"
            /\ displayPc' = "none"
            /\ selectionMenu' = <<>>
            /\ applied' = <<>>
            /\ captured' = <<>>
            /\ UNCHANGED <<alertMsg, readerVariant, rendered, liveInstances, saveCalls, saveOutcome>>
    /\ UNCHANGED <<clock, books, imports, downloads, isLoading>>
    /\ UNCHANGED <<apiVars, dbVars, gsVars, sfVars, setVars, srVars, errVars, dlVars>>

\* the calls still awaiting saveNote belong to a component that is gone:
\* their setSelectionMenu and annotations.add will reach nothing
Detached(calls) ==
    LET gone == {[t EXCEPT !.attached = FALSE] : t \in BagToSet(calls)}
    IN  [d \in gone |-> CopiesIn(d, calls) + CopiesIn([d EXCEPT !.attached = TRUE], calls)]

\* the elements with onClick={onClose} in what the Reader renders: the
\* toolbar button of the first Reader and of part_002 is in the document
\* whether the menu is open or not (the closed menu is moved and made
\* transparent, not removed), the error view of the first Reader has its
\* own button, the second Reader has a fixed top bar
CloseControls ==
    IF ~mounted THEN {}
    ELSE IF readerVariant = "Reader_2" THEN {"topBar"}
    ELSE IF readerVariant = "Reader_1" /\ errorMsg # "" THEN {"toolbar", "errorView"}
    ELSE {"toolbar"}

\* an unmount whose effect cleanup does not destroy the book
ReaderCloseNoDestroy ==
    /\ CloseControls # {}
    /\ activeBook' = <<>>
    /\ currentView' = "library"
    /\ mounted' = FALSE
    /\ loading' = TRUE
    /\ errorMsg' = ""
    /\ displayPc' = "none"
    /\ selectionMenu' = <<>>
    /\ saveCalls' = Detached(saveCalls)
    /\ UNCHANGED <<readerVariant, rendered, bookInstance, liveInstances, saveOutcome>>
    /\ applied' = <<>>
    /\ captured' = <<>>
    /\ UNCHANGED <<apiVars, dbVars, gsVars, sfVars, catVars, setVars, srVars, errVars, dlVars>>

\* onClose: setActiveBook(null); setCurrentView('library').  The Reader is
\* unmounted and the cleanup of its init effect destroys the book instance.
\* The handler reads no state: the buttons that call it are in the document
\* in every state of the Reader.
ReaderClose ==
    /\ CloseControls # {}
    /\ activeBook' = <<>>
    /\ currentView' = "library"
    /\ mounted' = FALSE
    /\ loading' = TRUE
    /\ errorMsg' = ""
    /\ bookInstance' = IF bookInstance = "live" THEN "destroyed" ELSE bookInstance
    /\ liveInstances' = IF bookInstance = "live" THEN liveInstances - 1 ELSE liveInstances
    /\ displayPc' = "none"
    /\ selectionMenu' = <<>>
    /\ saveCalls' = Detached(saveCalls)
    /\ UNCHANGED <<readerVariant, rendered, saveOutcome>>
    /\ applied' = <<>>
    /\ captured' = <<>>
    /\ UNCHANGED <<apiVars, dbVars, gsVars, sfVars, catVars, setVars, srVars, errVars, dlVars>>

----------------------------------------------------------------------------
(* A store that cannot be opened: initDB rejects, src/services/storageService.ts *)

\* loadData: initDB rejects in getBooks and getSettings, Promise.all rejects
\* and loadData rejects before setBooks and setSettings.  The effect calls
\* loadData() and drops the promise: nothing handles the rejection.
LoadDataRejects ==
    /\ ~storeAvailable
    /\ loadPc \in {"getBooks", "getSettings"}
    /\ loadPc' = "failed"
    /\ uncaught' = uncaught \cup {"loadData"}
    /\ UNCHANGED <<settings, settingsWrites, loaded, lastSaved, restarts, storeAvailable>>
    /\ UNCHANGED <<apiVars, dbVars, gsVars, sfVars, catVars, viewVars, srVars, rdVars, anVars, dlVars, thVars>>

\* reader.onload: await storage.saveBook(newBook) rejects.  onload is an
\* async function called by the FileReader: nothing handles the rejection.
AddBookStoreRejects(t) ==
    /\ ~storeAvailable
    /\ t.pc = "saving"
    /\ imports' = Without(imports, t)
    /\ uncaught' = uncaught \cup {"onload"}
    /\ UNCHANGED <<clock, books, downloads, isLoading, alertMsg, storeAvailable>>
    /\ UNCHANGED <<apiVars, dbVars, gsVars, sfVars, viewVars, setVars, srVars, rdVars, anVars, dlVars, thVars>>

----------------------------------------------------------------------------
(* Reader: src/components/Reader.tsx (two variants), src/unnamed/part_002 *)

ReaderVariants == {"Reader_1", "Reader_2", "part_002"}

\* what ePub(...) and book.renderTo(...) may do when called
InitOutcomes == {"ok", "ePubThrows", "renderToThrows"}

\* a stored record whose data field is missing
CorruptBook(id) ==
    [id |-> id, data |-> [present |-> FALSE, bytes |-> <<>>], source |-> STR_local]

\* The effects run once after the mount: the init effect, and after it the
\* settings effect, which finds renditionRef.current set when renderTo
\* returned.  The callbacks the init effect registers keep the applyTheme,
\* and with it the settings, of the render in which the effect ran.  Reader_1 checks the data and
\* wraps the calls in try/catch; Reader_2 returns silently without data;
\* part_002 calls ePub whatever the data.  Reader_2 and part_002 have no
\* try/catch: a throw leaves the effect uncaught, React unmounts the whole
\* tree (there is no error boundary) and no cleanup was registered.
ReaderInit(outcome) ==
    /\ mounted
    /\ displayPc = "none"
    /\ LET book == activeBook[1] IN
       IF ~book.data.present /\ readerVariant = "Reader_1"
       THEN /\ outcome = "ok"
            /\ errorMsg' = "no data"
            /\ loading' = FALSE
            /\ displayPc' = "skipped"
            /\ UNCHANGED <<bookInstance, rendered, liveInstances, mounted, thVars>>
       ELSE IF ~book.data.present /\ readerVariant = "Reader_2"
       THEN /\ outcome = "ok"
            /\ displayPc' = "skipped"
            /\ UNCHANGED <<loading, errorMsg, bookInstance, rendered, liveInstances, mounted, thVars>>
       ELSE /\ rendered' = rendered \cup {book.id}
            /\ bookInstance' = IF outcome = "ePubThrows" THEN "none" ELSE "live"
            /\ liveInstances' = IF outcome = "ePubThrows" THEN liveInstances
                                                           ELSE liveInstances + 1
            /\ IF outcome = "ok"
               THEN /\ displayPc' = "pending"
                    /\ captured' = <<settings>>
                    /\ applied' = <<Look(settings)>>
                    /\ UNCHANGED <<loading, errorMsg, mounted>>
               ELSE IF readerVariant = "Reader_1"
               THEN /\ errorMsg' = "init failed"
                    /\ loading' = FALSE
                    /\ displayPc' = "threw"
                    /\ UNCHANGED <<mounted, thVars>>
               ELSE /\ displayPc' = "crashed"
                    /\ mounted' = FALSE
                    /\ UNCHANGED <<loading, errorMsg, thVars>>
    /\ UNCHANGED <<readerVariant, selectionMenu, saveCalls, saveOutcome>>
    /\ UNCHANGED <<apiVars, dbVars, gsVars, sfVars, catVars, viewVars, setVars, srVars, errVars, dlVars>>

\* rendition.display() resolves: setLoading(false); applyTheme(rendition),
\* with the applyTheme of the render in which the init effect ran
ReaderDisplayOk ==
    /\ mounted
    /\ displayPc = "pending"
    /\ displayPc' = "shown"
    /\ loading' = FALSE
    /\ applied' = <<Look(captured[1])>>
    /\ UNCHANGED <<readerVariant, mounted, errorMsg, bookInstance, rendered, anVars, errVars, dlVars, captured>>
    /\ UNCHANGED <<apiVars, dbVars, gsVars, sfVars, catVars, viewVars, setVars, srVars>>

\* rendition.display() rejects: Reader_1 reports it, Reader_2 only clears
\* loading, part_002 has no handler
ReaderDisplayFail ==
    /\ mounted
    /\ displayPc = "pending"
    /\ displayPc' = "failed"
    /\ errorMsg' = IF readerVariant = "Reader_1" THEN "render failed" ELSE errorMsg
    /\ loading' = IF readerVariant = "part_002" THEN loading ELSE FALSE
    /\ UNCHANGED <<readerVariant, mounted, bookInstance, rendered, anVars, errVars, dlVars, thVars>>
    /\ UNCHANGED <<apiVars, dbVars, gsVars, sfVars, catVars, viewVars, setVars, srVars>>

\* the state of the reading session as the Reader shows it
SessionState ==
    IF displayPc = "crashed" THEN "Crashed"
    ELSE IF ~mounted THEN "Closed"
    ELSE IF errorMsg # "" THEN "Error"
    ELSE IF loading THEN "Opening"
    ELSE "Ready"

----------------------------------------------------------------------------
(* Reader: selection and annotations; saveNote, src/services/storageService.ts *)

MaxSaveCalls == 2

\* what the 'selected' event of the rendition carries: the cfi range and
\* the text of the range
Selections ==
    { [cfi |-> "cfi(/6/4)", text |-> <<"A", "b">>],
      [cfi |-> "cfi(/6/8)", text |-> <<"c">>] }

\* what window.prompt returns: <<>> for null (cancelled), <<s>> for the text s
PromptResults == { <<>>, << <<>> >>, << <<"o">> >> }

STR_yellow == <<"#", "F", "F", "E", "B", "3", "B">>
STR_green == <<"#", "9", "0", "E", "E", "9", "0">>

\* the newNote literal of handleSaveAnnotation
NewNote(type, input) ==
    [ id |-> toString(clock),
      bookId |-> activeBook[1].id,
      cfi |-> selectionMenu[1].cfi,
      text |-> selectionMenu[1].text,
      annotation |-> IF type = "note" THEN input[1] ELSE <<>>,
      color |-> IF type = "highlight" THEN STR_yellow ELSE STR_green ]

\* a 'selected' handler that saves the selection as a highlight at once
ReaderSelectedAutoSave(sel) ==
    /\ mounted
    /\ displayPc = "shown"
    /\ BagCardinality(saveCalls) < MaxSaveCalls
    /\ selectionMenu' = <<sel>>
    /\ saveCalls' = saveCalls (+) SetToBag({[pc |-> "put", attached |-> TRUE,
           note |-> [ id |-> toString(clock), bookId |-> activeBook[1].id,
                      cfi |-> sel.cfi, text |-> sel.text,
                      annotation |-> <<>>, color |-> STR_yellow ]]})
    /\ UNCHANGED <<liveInstances, saveOutcome, rdVars>>
    /\ UNCHANGED <<apiVars, dbVars, gsVars, sfVars, catVars, viewVars, setVars, srVars, errVars, dlVars, thVars>>

\* rendition.on('selected', ...): setSelectionMenu({cfi, text}).  Text can
\* be selected once the rendition has displayed.
ReaderSelected(sel) ==
    /\ mounted
    /\ displayPc = "shown"
    /\ selectionMenu' = <<sel>>
    /\ UNCHANGED <<liveInstances, saveCalls, saveOutcome, rdVars>>
    /\ UNCHANGED <<apiVars, dbVars, gsVars, sfVars, catVars, viewVars, setVars, srVars, errVars, dlVars, thVars>>

\* rendition.on('click', ...).  The second Reader calls setSelectionMenu(null).
\* The handler of the first Reader and of part_002 tests the selectionMenu
\* of the render in which the effect ran, which is null, and so only
\* toggles the menu: the selection stays.
ReaderClick ==
    /\ mounted
    /\ displayPc = "shown"
    /\ selectionMenu' = IF readerVariant = "Reader_2" THEN <<>> ELSE selectionMenu
    /\ UNCHANGED <<liveInstances, saveCalls, saveOutcome, rdVars>>
    /\ UNCHANGED <<apiVars, dbVars, gsVars, sfVars, catVars, viewVars, setVars, srVars, errVars, dlVars, thVars>>

\* handleSaveAnnotation(type) up to await storage.saveNote(newNote); input
\* is what the prompt returns (a highlight shows no prompt).  The two
\* buttons are rendered only while there is a selection.
HandleSaveAnnotation(type, input) ==
    /\ mounted
    /\ selectionMenu # <<>>
    /\ BagCardinality(saveCalls) < MaxSaveCalls
    /\ type = "highlight" => input = <<>>
    /\ IF type = "note" /\ input = <<>>
       THEN UNCHANGED saveCalls
       ELSE saveCalls' = saveCalls (+)
                SetToBag({[pc |-> "put", attached |-> TRUE, note |-> NewNote(type, input)]})
    /\ UNCHANGED <<liveInstances, selectionMenu, saveOutcome, rdVars>>
    /\ UNCHANGED <<apiVars, dbVars, gsVars, sfVars, catVars, viewVars, setVars, srVars, errVars, dlVars, thVars>>

\* saveNote: await db.put(STORES.NOTES, note) resolves; syncToNotion is called
SaveNotePut(t) ==
    /\ BagIn(t, saveCalls)
    /\ t.pc = "put"
    /\ dbNotes' = DbPut(dbNotes, t.note)
    /\ saveCalls' = Replace(saveCalls, t, [t EXCEPT !.pc = "sync"])
    /\ UNCHANGED <<dbBooks, dbSettings, liveInstances, selectionMenu, saveOutcome, rdVars>>
    /\ UNCHANGED <<apiVars, gsVars, sfVars, catVars, viewVars, setVars, srVars, errVars, dlVars, thVars>>

\* saveNote: the put rejects; saveNote and handleSaveAnnotation reject
SaveNotePutFails(t) ==
    /\ BagIn(t, saveCalls)
    /\ t.pc = "put"
    /\ saveCalls' = Without(saveCalls, t)
    /\ saveOutcome' = "rejected_store"
    /\ UNCHANGED <<liveInstances, selectionMenu, rdVars>>
    /\ UNCHANGED <<apiVars, dbVars, gsVars, sfVars, catVars, viewVars, setVars, srVars, errVars, dlVars, thVars>>

\* saveNote: await syncToNotion(note) resolves and saveNote resolves;
\* handleSaveAnnotation goes on to annotations.add and setSelectionMenu(null),
\* which reach the Reader only if it is still the mounted one
SaveNoteSyncOk(t) ==
    /\ BagIn(t, saveCalls)
    /\ t.pc = "sync"
    /\ saveCalls' = Without(saveCalls, t)
    /\ saveOutcome' = "resolved"
    /\ selectionMenu' = IF t.attached THEN <<>> ELSE selectionMenu
    /\ UNCHANGED <<liveInstances, rdVars>>
    /\ UNCHANGED <<apiVars, dbVars, gsVars, sfVars, catVars, viewVars, setVars, srVars, errVars, dlVars, thVars>>

\* saveNote: the promise of syncToNotion rejects.  saveNote awaits it outside
\* any try, so saveNote rejects with the hook's error, and so does
\* handleSaveAnnotation, before annotations.add and setSelectionMenu(null).
\* The hook is the reserved place of a call to an external service; the body
\* it has today only logs.
SaveNoteSyncFails(t) ==
    /\ BagIn(t, saveCalls)
    /\ t.pc = "sync"
    /\ saveCalls' = Without(saveCalls, t)
    /\ saveOutcome' = "rejected_hook"
    /\ UNCHANGED <<liveInstances, selectionMenu, rdVars>>
    /\ UNCHANGED <<apiVars, dbVars, gsVars, sfVars, catVars, viewVars, setVars, srVars, errVars, dlVars, thVars>>

----------------------------------------------------------------------------
(* App: search effect and search overlay, src/App.tsx *)

MaxSearches == 2

\* what may be typed into the search field
SearchQueries ==
    { <<>>, <<"a">>, <<" ", "a", " ">>, <<"a", "b">>, <<"b", "b">> }

\* the second and third placeholder entries searchFreeBooks fabricates
DemoBook1 ==
    [ id |-> <<"d", "e", "m", "o", "-", "b", "o", "o", "k", "-", "1">>,
      title |-> <<"t", "1">>, source |-> STR_Gutenberg, downloadUrl |-> STR_hash ]
DemoBook2 ==
    [ id |-> <<"d", "e", "m", "o", "-", "b", "o", "o", "k", "-", "2">>,
      title |-> <<"t", "2">>, source |-> STR_Haodoo, downloadUrl |-> STR_hash ]

\* what searchFreeBooks(query) may resolve to: the body of the endpoint's
\* answer, or the three placeholders when the endpoint cannot be used
SearchFreeBooksResults(query) ==
    { <<ApiEntry(query, <<"1">>)>>,
      <<ApiFallbackEntry(query)>>,
      <<MockEntry(query), DemoBook1, DemoBook2>> }

\* ---- searchFreeBooks, src/services/storageService.ts and src/unnamed/part_003

nonFreeBooks == <<apiVars, dbVars, gsVars, catVars, viewVars, setVars, srVars, rdVars, anVars, errVars, dlVars, thVars>>

\* The two sources of searchFreeBooks kept in the repository.
SfVariants == {"storageService", "part_003"}

\* the queries performSearch passes on
SfQueries == {q \in SearchQueries : Len(Trim(q)) >= 2}

\* response.headers.get("content-type"): <<>> stands for null
ContentTypes ==
    { <<>>, STR_text_html, STR_application_json, STR_application_json \o STR_charset }

\* what the body of a response holds: the endpoint's 200 answers ("hits",
\* "fallback"), its 500 answer ("error"), or a page that is no JSON ("html")
Responses ==
    { [settled |-> "response", ok |-> TRUE, contentType |-> c, body |-> b] :
          c \in ContentTypes, b \in {"hits", "fallback", "html"} } \cup
    { [settled |-> "response", ok |-> FALSE, contentType |-> c, body |-> b] :
          c \in ContentTypes, b \in {"error", "html"} }

\* no fetch has settled
NoFetch == [settled |-> "none", ok |-> FALSE, contentType |-> <<>>, body |-> "none"]

\* the call has not settled
NoReturn == [kind |-> "pending", value |-> <<>>]

\* the value response.json() resolves to
JsonValue(body, query) ==
    IF body = "hits" THEN <<ApiEntry(query, <<"1">>)>> ELSE <<ApiFallbackEntry(query)>>

\* the single entry part_003 returns for !response.ok
SystemMockEntry(query) ==
    [ id          |-> STR_mock_haodoo,
      title       |-> query,
      source      |-> STR_System,
      downloadUrl |-> STR_hash ]

\* a catch block whose demo entries point at a file
SearchFreeBooksCatchLinked(variant, query) ==
    IF variant = "storageService"
    THEN <<MockEntry(query),
           [DemoBook1 EXCEPT !.downloadUrl = STR_gutenberg_url],
           [DemoBook2 EXCEPT !.downloadUrl = STR_url_prefix \o <<"1">> \o STR_epub]>>
    ELSE <<>>

\* what the catch block returns
SearchFreeBooksCatch(variant, query) ==
    IF variant = "storageService"
    THEN <<MockEntry(query), DemoBook1, DemoBook2>>
    ELSE <<>>

\* the check made on the response before response.json() is called; TRUE when
\* the call goes on to read the body
ResponseAccepted(variant, response) ==
    IF variant = "storageService"
    THEN response.ok /\ response.contentType # <<>>
                     /\ Includes(response.contentType, STR_application_json)
    ELSE response.ok

\* searchFreeBooks(query) up to await fetch(...); the storageService source
\* arms a 3 s abort timer first
SearchFreeBooksCall(query) ==
    /\ sfPc \in {"idle", "done"}
    /\ sfPc' = "fetching"
    /\ sfQuery' = query
    /\ sfResponse' = NoFetch
    /\ sfReturn' = NoReturn
    /\ UNCHANGED <<sfVariant, nonFreeBooks>>

\* fetch rejects: the network fails, or (storageService source only) the
\* timer aborts the request
SearchFreeBooksFetchRejects(cause) ==
    /\ sfPc = "fetching"
    /\ cause = "abort" => sfVariant = "storageService"
    /\ sfPc' = "done"
    /\ sfResponse' = [NoFetch EXCEPT !.settled = cause]
    /\ sfReturn' = [kind |-> "resolved", value |-> SearchFreeBooksCatch(sfVariant, sfQuery)]
    /\ UNCHANGED <<sfVariant, sfQuery, nonFreeBooks>>

\* fetch resolves with a response; the status (and content type) is checked
SearchFreeBooksFetchResolves(response) ==
    /\ sfPc = "fetching"
    /\ sfResponse' = response
    /\ IF ResponseAccepted(sfVariant, response)
       THEN /\ sfPc' = "json"
            /\ UNCHANGED sfReturn
       ELSE /\ sfPc' = "done"
            /\ sfReturn' =
                  IF sfVariant = "storageService"
                  THEN [kind |-> "resolved", value |-> SearchFreeBooksCatch(sfVariant, sfQuery)]
                  ELSE [kind |-> "resolved", value |-> <<SystemMockEntry(sfQuery)>>]
    /\ UNCHANGED <<sfVariant, sfQuery, nonFreeBooks>>

\* return await response.json(): it rejects on a body that is no JSON, which
\* the catch block turns into its return value
SearchFreeBooksJsonSettles ==
    /\ sfPc = "json"
    /\ sfPc' = "done"
    /\ sfReturn' =
          IF sfResponse.body = "html"
          THEN [kind |-> "resolved", value |-> SearchFreeBooksCatch(sfVariant, sfQuery)]
          ELSE [kind |-> "resolved", value |-> JsonValue(sfResponse.body, sfQuery)]
    /\ UNCHANGED <<sfVariant, sfQuery, sfResponse, nonFreeBooks>>

\* onChange of the search field: setSearchQuery(e.target.value); the effect's
\* cleanup clears the pending timer and the effect sets a new one
SetSearchQuery(query) ==
    /\ currentView = "search"
    /\ query # searchQuery
    /\ searchQuery' = query
    /\ debounce' = TRUE
    /\ UNCHANGED <<searches, searchResults, externalResults, isSearching, shownQuery>>
    /\ UNCHANGED <<apiVars, dbVars, gsVars, sfVars, catVars, viewVars, setVars, rdVars, anVars, errVars, dlVars, thVars>>

\* handleSearchClick: toggles the overlay and empties the query
HandleSearchClick ==
    /\ currentView # "reader"
    /\ currentView' = IF currentView = "search" THEN "library" ELSE "search"
    /\ searchQuery' = <<>>
    /\ debounce' = IF searchQuery # <<>> THEN TRUE ELSE debounce
    /\ UNCHANGED <<searches, searchResults, externalResults, isSearching, shownQuery>>
    /\ UNCHANGED <<activeBook, apiVars, dbVars, gsVars, sfVars, catVars, setVars, rdVars, anVars, errVars, dlVars, thVars>>

\* the debounce timer fires: performSearch up to its await
PerformSearchStart ==
    /\ debounce
    /\ debounce' = FALSE
    /\ IF Len(Trim(searchQuery)) < 2
       THEN /\ searchResults' = <<>>
            /\ externalResults' = <<>>
            /\ shownQuery' = searchQuery
            /\ UNCHANGED <<searches, isSearching>>
       ELSE /\ BagCardinality(searches) < MaxSearches
            /\ isSearching' = TRUE
            /\ searches' = searches (+) SetToBag({[query |-> searchQuery]})
            /\ UNCHANGED <<searchResults, externalResults, shownQuery>>
    /\ UNCHANGED searchQuery
    /\ UNCHANGED <<apiVars, dbVars, gsVars, sfVars, catVars, viewVars, setVars, rdVars, anVars, errVars, dlVars, thVars>>

\* Promise.all resolves: setSearchResults, setExternalResults, then finally
PerformSearchPublish(t, onlineBooks) ==
    /\ searchResults' = SearchGlobalNotes(DbGetAll(dbNotes), DbGetAll(dbBooks), t.query)
    /\ externalResults' = onlineBooks
    /\ shownQuery' = t.query
    /\ isSearching' = FALSE
    /\ searches' = Without(searches, t)
    /\ UNCHANGED <<searchQuery, debounce>>
    /\ UNCHANGED <<apiVars, dbVars, gsVars, sfVars, catVars, viewVars, setVars, rdVars, anVars, errVars, dlVars, thVars>>

\* Promise.all rejects (searchGlobalNotes failed): catch, then finally
PerformSearchFail(t) ==
    /\ isSearching' = FALSE
    /\ searches' = Without(searches, t)
    /\ UNCHANGED <<searchQuery, debounce, searchResults, externalResults, shownQuery>>
    /\ UNCHANGED <<apiVars, dbVars, gsVars, sfVars, catVars, viewVars, setVars, rdVars, anVars, errVars, dlVars, thVars>>

\* one call of the pair handed to Promise.all
Pending == [st |-> "pending", value |-> <<>>]
Settled(value) == [st |-> "done", value |-> value]

\* the debounce timer fires: performSearch up to its await, with the two
\* calls in the array handed to Promise.all both made
PerformSearchCalls ==
    /\ debounce
    /\ debounce' = FALSE
    /\ IF Len(Trim(searchQuery)) < 2
       THEN /\ searchResults' = <<>>
            /\ externalResults' = <<>>
            /\ shownQuery' = searchQuery
            /\ UNCHANGED <<searches, isSearching>>
       ELSE /\ BagCardinality(searches) < MaxSearches
            /\ isSearching' = TRUE
            /\ searches' = searches (+)
                   SetToBag({[query |-> searchQuery, notes |-> Pending, online |-> Pending]})
            /\ UNCHANGED <<searchResults, externalResults, shownQuery>>
    /\ UNCHANGED searchQuery
    /\ UNCHANGED <<apiVars, dbVars, gsVars, sfVars, catVars, viewVars, setVars, rdVars, anVars, errVars, dlVars, thVars>>

\* a search that shows the notes as soon as they are there
SearchNotesSettlesShown(t) ==
    /\ t.notes.st = "pending"
    /\ searches' = Replace(searches, t,
           [t EXCEPT !.notes = Settled(SearchGlobalNotes(DbGetAll(dbNotes), DbGetAll(dbBooks), t.query))])
    /\ searchResults' = SearchGlobalNotes(DbGetAll(dbNotes), DbGetAll(dbBooks), t.query)
    /\ UNCHANGED <<searchQuery, debounce, externalResults, isSearching, shownQuery>>
    /\ UNCHANGED <<apiVars, dbVars, gsVars, sfVars, catVars, viewVars, setVars, rdVars, anVars, errVars, dlVars, thVars>>

\* storage.searchGlobalNotes(searchQuery) resolves; Promise.all keeps the value
SearchNotesSettles(t) ==
    /\ t.notes.st = "pending"
    /\ searches' = Replace(searches, t,
           [t EXCEPT !.notes = Settled(SearchGlobalNotes(DbGetAll(dbNotes), DbGetAll(dbBooks), t.query))])
    /\ UNCHANGED <<searchQuery, debounce, searchResults, externalResults, isSearching, shownQuery>>
    /\ UNCHANGED <<apiVars, dbVars, gsVars, sfVars, catVars, viewVars, setVars, rdVars, anVars, errVars, dlVars, thVars>>

\* storage.searchFreeBooks(searchQuery) resolves; Promise.all keeps the value
SearchBooksSettles(t, onlineBooks) ==
    /\ t.online.st = "pending"
    /\ searches' = Replace(searches, t, [t EXCEPT !.online = Settled(onlineBooks)])
    /\ UNCHANGED <<searchQuery, debounce, searchResults, externalResults, isSearching, shownQuery>>
    /\ UNCHANGED <<apiVars, dbVars, gsVars, sfVars, catVars, viewVars, setVars, rdVars, anVars, errVars, dlVars, thVars>>

\* storage.searchGlobalNotes rejects: Promise.all rejects at once, whatever
\* the other call has done; catch, then finally
SearchNotesRejects(t) ==
    /\ t.notes.st = "pending"
    /\ isSearching' = FALSE
    /\ searches' = Without(searches, t)
    /\ UNCHANGED <<searchQuery, debounce, searchResults, externalResults, shownQuery>>
    /\ UNCHANGED <<apiVars, dbVars, gsVars, sfVars, catVars, viewVars, setVars, rdVars, anVars, errVars, dlVars, thVars>>

\* Promise.all resolves with both values: setSearchResults,
\* setExternalResults, then finally
PerformSearchJoin(t) ==
    /\ t.notes.st = "done"
    /\ t.online.st = "done"
    /\ searchResults' = t.notes.value
    /\ externalResults' = t.online.value
    /\ shownQuery' = t.query
    /\ isSearching' = FALSE
    /\ searches' = Without(searches, t)
    /\ UNCHANGED <<searchQuery, debounce>>
    /\ UNCHANGED <<apiVars, dbVars, gsVars, sfVars, catVars, viewVars, setVars, rdVars, anVars, errVars, dlVars, thVars>>

----------------------------------------------------------------------------
(* Specifications *)

InitApi ==
    /\ apiVariant \in ApiVariants
    /\ apiPc = "idle"
    /\ apiKeyword = <<>>
    /\ uniqueIds = {}
    /\ results = <<>>
    /\ apiResponse = NoResponse
    /\ upstreamCalls = 0
    /\ dbBooks = {}
    /\ dbNotes = {}
    /\ dbSettings = {}
    /\ gsPc = "idle"
    /\ gsQuery = <<>>
    /\ gsNotes = <<>>
    /\ gsResult = <<>>
    /\ sfVariant = "storageService"
    /\ sfPc = "idle"
    /\ sfQuery = <<>>
    /\ sfResponse = NoFetch
    /\ sfReturn = NoReturn
    /\ clock = 0
    /\ books = <<>>
    /\ imports = EmptyBag
    /\ downloads = EmptyBag
    /\ isLoading = FALSE
    /\ alertMsg = "none"
    /\ currentView = "library"
    /\ activeBook = <<>>
    /\ settings = DefaultSettings
    /\ settingsWrites = <<>>
    /\ loadPc = "done"
    /\ loaded = [books |-> <<>>, settings |-> DefaultSettings]
    /\ lastSaved = <<>>
    /\ restarts = 0
    /\ searchQuery = <<>>
    /\ debounce = FALSE
    /\ searches = EmptyBag
    /\ searchResults = <<>>
    /\ externalResults = <<>>
    /\ isSearching = FALSE
    /\ shownQuery = <<>>
    /\ readerVariant = "Reader_1"
    /\ mounted = FALSE
    /\ loading = TRUE
    /\ errorMsg = ""
    /\ bookInstance = "none"
    /\ displayPc = "none"
    /\ rendered = {}
    /\ liveInstances = 0
    /\ selectionMenu = <<>>
    /\ saveCalls = EmptyBag
    /\ saveOutcome = "none"
    /\ storeAvailable = TRUE
    /\ uncaught = {}
    /\ dlVariant = "download"
    /\ dlPc = "idle"
    /\ dlUrl = <<>>
    /\ dlUpstream = NoUpstream
    /\ dlResponse = NoDlResponse
    /\ applied = <<>>
    /\ captured = <<>>

NextApi ==
    \/ \E k \in Keywords : ApiRequest(k)
    \/ \E c \in UpstreamFailures : ApiUpstreamFail(c)
    \/ ApiUpstreamOk
    \/ \E b \in UpstreamIds : ApiScanMatch(b)
    \/ ApiRespond

\* the search endpoint serving requests
SpecApi == InitApi /\ [][NextApi]_vars

InitStorage ==
    /\ apiVariant = "part_001"
    /\ apiPc = "idle"
    /\ apiKeyword = <<>>
    /\ uniqueIds = {}
    /\ results = <<>>
    /\ apiResponse = NoResponse
    /\ upstreamCalls = 0
    /\ dbBooks = {}
    /\ dbNotes = {}
    /\ dbSettings = {}
    /\ gsPc = "idle"
    /\ gsQuery = <<>>
    /\ gsNotes = <<>>
    /\ gsResult = <<>>
    /\ sfVariant = "storageService"
    /\ sfPc = "idle"
    /\ sfQuery = <<>>
    /\ sfResponse = NoFetch
    /\ sfReturn = NoReturn
    /\ clock = 0
    /\ books = <<>>
    /\ imports = EmptyBag
    /\ downloads = EmptyBag
    /\ isLoading = FALSE
    /\ alertMsg = "none"
    /\ currentView = "library"
    /\ activeBook = <<>>
    /\ settings = DefaultSettings
    /\ settingsWrites = <<>>
    /\ loadPc = "done"
    /\ loaded = [books |-> <<>>, settings |-> DefaultSettings]
    /\ lastSaved = <<>>
    /\ restarts = 0
    /\ searchQuery = <<>>
    /\ debounce = FALSE
    /\ searches = EmptyBag
    /\ searchResults = <<>>
    /\ externalResults = <<>>
    /\ isSearching = FALSE
    /\ shownQuery = <<>>
    /\ readerVariant = "Reader_1"
    /\ mounted = FALSE
    /\ loading = TRUE
    /\ errorMsg = ""
    /\ bookInstance = "none"
    /\ displayPc = "none"
    /\ rendered = {}
    /\ liveInstances = 0
    /\ selectionMenu = <<>>
    /\ saveCalls = EmptyBag
    /\ saveOutcome = "none"
    /\ storeAvailable = TRUE
    /\ uncaught = {}
    /\ dlVariant = "download"
    /\ dlPc = "idle"
    /\ dlUrl = <<>>
    /\ dlUpstream = NoUpstream
    /\ dlResponse = NoDlResponse
    /\ applied = <<>>
    /\ captured = <<>>

NextStorage ==
    \/ \E id \in StBookIds : SaveBook(StBook(id))
    \/ \E id \in StBookIds : DeleteBook(id)
    \/ \E id \in StNoteIds, b \in StBookIds, c \in NoteContents :
          SaveNote([id |-> id, bookId |-> b, text |-> c.text, annotation |-> c.annotation])
    \/ \E id \in StNoteIds : DeleteNote(id)
    \/ \E q \in NoteQueries : SearchGlobalNotesGetNotes(q)
    \/ SearchGlobalNotesReturn

\* the storage service called by its clients
SpecStorage == InitStorage /\ [][NextStorage]_vars

Init ==
    /\ apiVariant = "part_001"
    /\ apiPc = "idle"
    /\ apiKeyword = <<>>
    /\ uniqueIds = {}
    /\ results = <<>>
    /\ apiResponse = NoResponse
    /\ upstreamCalls = 0
    /\ dbBooks = {}
    /\ dbNotes = {}
    /\ dbSettings = {}
    /\ gsPc = "idle"
    /\ gsQuery = <<>>
    /\ gsNotes = <<>>
    /\ gsResult = <<>>
    /\ sfVariant = "storageService"
    /\ sfPc = "idle"
    /\ sfQuery = <<>>
    /\ sfResponse = NoFetch
    /\ sfReturn = NoReturn
    /\ clock = 0
    /\ books = <<>>
    /\ imports = EmptyBag
    /\ downloads = EmptyBag
    /\ isLoading = FALSE
    /\ alertMsg = "none"
    /\ currentView = "library"
    /\ activeBook = <<>>
    /\ settings = DefaultSettings
    /\ settingsWrites = <<>>
    /\ loadPc = "done"
    /\ loaded = [books |-> <<>>, settings |-> DefaultSettings]
    /\ lastSaved = <<>>
    /\ restarts = 0
    /\ searchQuery = <<>>
    /\ debounce = FALSE
    /\ searches = EmptyBag
    /\ searchResults = <<>>
    /\ externalResults = <<>>
    /\ isSearching = FALSE
    /\ shownQuery = <<>>
    /\ readerVariant = "Reader_1"
    /\ mounted = FALSE
    /\ loading = TRUE
    /\ errorMsg = ""
    /\ bookInstance = "none"
    /\ displayPc = "none"
    /\ rendered = {}
    /\ liveInstances = 0
    /\ selectionMenu = <<>>
    /\ saveCalls = EmptyBag
    /\ saveOutcome = "none"
    /\ storeAvailable = TRUE
    /\ uncaught = {}
    /\ dlVariant = "download"
    /\ dlPc = "idle"
    /\ dlUrl = <<>>
    /\ dlUpstream = NoUpstream
    /\ dlResponse = NoDlResponse
    /\ applied = <<>>
    /\ captured = <<>>

Next ==
    \/ Tick
    \/ \E f \in FileBytes : HandleAddBook(f)
    \/ \E t \in BagToSet(imports) : AddBookOnload(t)
    \/ \E t \in BagToSet(imports) : AddBookSaved(t)
    \/ \E t \in BagToSet(imports) : AddBookListed(t)
    \/ \E t \in BagToSet(imports) : AddBookFailed(t)

\* the App's catalog under imports
Spec == Init /\ [][Next]_vars

\* imports and downloads in flight together
MaxInFlight == 2

CatalogHasRoom == BagCardinality(imports) + BagCardinality(downloads) < MaxInFlight

\* imports and downloads together: one file content, the entries with a real
\* download URL, every download confirmed.  Every store call made after a book
\* was written succeeds (a FileReader error, a failed fetch and a rejected
\* put are kept).
NextCatalog ==
    \/ Tick
    \/ CatalogHasRoom /\ HandleAddBook(<<1>>)
    \/ \E t \in BagToSet(imports) : AddBookOnload(t)
    \/ \E t \in BagToSet(imports) : AddBookSaved(t)
    \/ \E t \in BagToSet(imports) : AddBookListed(t)
    \/ \E t \in BagToSet(imports) : t.pc # "listing" /\ AddBookFailed(t)
    \/ \E e \in ExternalBooks :
           CatalogHasRoom /\ ~IsPlaceholderUrl(e.downloadUrl) /\ HandleDownloadAndAdd(e, TRUE)
    \/ \E t \in BagToSet(downloads) : t.pc # "listing" /\ DownloadFailed(t)
    \/ \E t \in BagToSet(downloads), b \in ResponseBodies : DownloadBodyRead(t, b)
    \/ \E t \in BagToSet(downloads) : DownloadSaved(t)
    \/ \E t \in BagToSet(downloads) : DownloadListed(t)

\* the App's catalog under concurrent imports and downloads
SpecCatalog == Init /\ [][NextCatalog]_vars

InitDownload ==
    /\ apiVariant = "part_001"
    /\ apiPc = "idle"
    /\ apiKeyword = <<>>
    /\ uniqueIds = {}
    /\ results = <<>>
    /\ apiResponse = NoResponse
    /\ upstreamCalls = 0
    /\ dbBooks = {}
    /\ dbNotes = {}
    /\ dbSettings = {}
    /\ gsPc = "idle"
    /\ gsQuery = <<>>
    /\ gsNotes = <<>>
    /\ gsResult = <<>>
    /\ sfVariant = "storageService"
    /\ sfPc = "idle"
    /\ sfQuery = <<>>
    /\ sfResponse = NoFetch
    /\ sfReturn = NoReturn
    /\ clock = 0
    /\ books = <<>>
    /\ imports = EmptyBag
    /\ downloads = EmptyBag
    /\ isLoading = FALSE
    /\ alertMsg = "none"
    /\ currentView = "search"
    /\ activeBook = <<>>
    /\ settings = DefaultSettings
    /\ settingsWrites = <<>>
    /\ loadPc = "done"
    /\ loaded = [books |-> <<>>, settings |-> DefaultSettings]
    /\ lastSaved = <<>>
    /\ restarts = 0
    /\ searchQuery = <<>>
    /\ debounce = FALSE
    /\ searches = EmptyBag
    /\ searchResults = <<>>
    /\ externalResults = <<>>
    /\ isSearching = FALSE
    /\ shownQuery = <<>>
    /\ readerVariant = "Reader_1"
    /\ mounted = FALSE
    /\ loading = TRUE
    /\ errorMsg = ""
    /\ bookInstance = "none"
    /\ displayPc = "none"
    /\ rendered = {}
    /\ liveInstances = 0
    /\ selectionMenu = <<>>
    /\ saveCalls = EmptyBag
    /\ saveOutcome = "none"
    /\ storeAvailable = TRUE
    /\ uncaught = {}
    /\ dlVariant = "download"
    /\ dlPc = "idle"
    /\ dlUrl = <<>>
    /\ dlUpstream = NoUpstream
    /\ dlResponse = NoDlResponse
    /\ applied = <<>>
    /\ captured = <<>>

NextDownload ==
    \/ \E e \in ExternalBooks, c \in BOOLEAN : HandleDownloadAndAdd(e, c)
    \/ \E t \in BagToSet(downloads) : DownloadFailed(t)
    \/ \E t \in BagToSet(downloads), b \in ResponseBodies : DownloadBodyRead(t, b)
    \/ \E t \in BagToSet(downloads) : DownloadSaved(t)
    \/ \E t \in BagToSet(downloads) : DownloadListed(t)

\* the App's catalog under one-click downloads
SpecDownload == InitDownload /\ [][NextDownload]_vars

\* the values a handleDownloadAndAdd call in flight may have
DownloadTasks ==
    LET real == {e \in ExternalBooks : ~IsPlaceholderUrl(e.downloadUrl)}
    IN  { [pc |-> "fetching", eb |-> e, book |-> NoBook] : e \in real } \cup
        { [pc |-> q, eb |-> e, book |-> NewDownloadedBook(e, b)] :
              q \in {"saving", "listing"}, e \in real, b \in ResponseBodies }

\* the promise a call in flight awaits settles, one way or the other
DownloadSettles(t) ==
    /\ BagIn(t, downloads)
    /\ \/ DownloadFailed(t)
       \/ \E b \in ResponseBodies : DownloadBodyRead(t, b)
       \/ DownloadSaved(t)
       \/ DownloadListed(t)

\* one-click downloads where every awaited promise (fetch, arrayBuffer,
\* saveBook, getBooks) eventually settles
SpecDownloadLive ==
    /\ InitDownload
    /\ [][NextDownload]_vars
    /\ \A t \in DownloadTasks : WF_vars(DownloadSettles(t))

InitSettings ==
    /\ apiVariant = "part_001"
    /\ apiPc = "idle"
    /\ apiKeyword = <<>>
    /\ uniqueIds = {}
    /\ results = <<>>
    /\ apiResponse = NoResponse
    /\ upstreamCalls = 0
    /\ dbBooks = {StBook(<<"1">>)}
    /\ dbNotes = {}
    /\ dbSettings = {}
    /\ gsPc = "idle"
    /\ gsQuery = <<>>
    /\ gsNotes = <<>>
    /\ gsResult = <<>>
    /\ sfVariant = "storageService"
    /\ sfPc = "idle"
    /\ sfQuery = <<>>
    /\ sfResponse = NoFetch
    /\ sfReturn = NoReturn
    /\ clock = 0
    /\ books = <<>>
    /\ imports = EmptyBag
    /\ downloads = EmptyBag
    /\ isLoading = FALSE
    /\ alertMsg = "none"
    /\ currentView = "library"
    /\ activeBook = <<>>
    /\ settings = DefaultSettings
    /\ settingsWrites = <<>>
    /\ loadPc = "getBooks"
    /\ loaded = [books |-> <<>>, settings |-> DefaultSettings]
    /\ lastSaved = <<>>
    /\ restarts = 0
    /\ searchQuery = <<>>
    /\ debounce = FALSE
    /\ searches = EmptyBag
    /\ searchResults = <<>>
    /\ externalResults = <<>>
    /\ isSearching = FALSE
    /\ shownQuery = <<>>
    /\ readerVariant = "Reader_1"
    /\ mounted = FALSE
    /\ loading = TRUE
    /\ errorMsg = ""
    /\ bookInstance = "none"
    /\ displayPc = "none"
    /\ rendered = {}
    /\ liveInstances = 0
    /\ selectionMenu = <<>>
    /\ saveCalls = EmptyBag
    /\ saveOutcome = "none"
    /\ storeAvailable = TRUE
    /\ uncaught = {}
    /\ dlVariant = "download"
    /\ dlPc = "idle"
    /\ dlUrl = <<>>
    /\ dlUpstream = NoUpstream
    /\ dlResponse = NoDlResponse
    /\ applied = <<>>
    /\ captured = <<>>

NextSettings ==
    \/ LoadDataGetBooks
    \/ LoadDataGetSettings
    \/ LoadDataSet
    \/ \E i \in DOMAIN books : HandleOpenBook(books[i])
    \/ ReaderClose
    \/ \E t \in ThemeTypes : ThemeButton(t)
    \/ FontPlusButton
    \/ FontMinusButton
    \/ SaveSettingsCommit
    \/ Restart

\* the App from its first start: settings changed in the Reader, persisted, reloaded
SpecSettings == InitSettings /\ [][NextSettings]_vars

\* font sizes the store may hold when the Reader is opened
InitialFontSizes == {80, 100, 175, 180}

InitFont ==
    /\ apiVariant = "part_001"
    /\ apiPc = "idle"
    /\ apiKeyword = <<>>
    /\ uniqueIds = {}
    /\ results = <<>>
    /\ apiResponse = NoResponse
    /\ upstreamCalls = 0
    /\ dbBooks = {StBook(<<"1">>)}
    /\ dbNotes = {}
    /\ dbSettings \in {DbPutSettings({}, [DefaultSettings EXCEPT !.fontSize = f]) : f \in InitialFontSizes}
    /\ gsPc = "idle"
    /\ gsQuery = <<>>
    /\ gsNotes = <<>>
    /\ gsResult = <<>>
    /\ sfVariant = "storageService"
    /\ sfPc = "idle"
    /\ sfQuery = <<>>
    /\ sfResponse = NoFetch
    /\ sfReturn = NoReturn
    /\ clock = 0
    /\ books = <<StBook(<<"1">>)>>
    /\ imports = EmptyBag
    /\ downloads = EmptyBag
    /\ isLoading = FALSE
    /\ alertMsg = "none"
    /\ currentView = "reader"
    /\ activeBook = <<StBook(<<"1">>)>>
    /\ settings = GetSettings(dbSettings)
    /\ settingsWrites = <<>>
    /\ loadPc = "done"
    /\ loaded = [books |-> <<>>, settings |-> DefaultSettings]
    /\ lastSaved = <<>>
    /\ restarts = 0
    /\ searchQuery = <<>>
    /\ debounce = FALSE
    /\ searches = EmptyBag
    /\ searchResults = <<>>
    /\ externalResults = <<>>
    /\ isSearching = FALSE
    /\ shownQuery = <<>>
    /\ readerVariant = "Reader_1"
    /\ mounted = TRUE
    /\ loading = TRUE
    /\ errorMsg = ""
    /\ bookInstance = "none"
    /\ displayPc = "none"
    /\ rendered = {}
    /\ liveInstances = 0
    /\ selectionMenu = <<>>
    /\ saveCalls = EmptyBag
    /\ saveOutcome = "none"
    /\ storeAvailable = TRUE
    /\ uncaught = {}
    /\ dlVariant = "download"
    /\ dlPc = "idle"
    /\ dlUrl = <<>>
    /\ dlUpstream = NoUpstream
    /\ dlResponse = NoDlResponse
    /\ applied = <<>>
    /\ captured = <<>>

NextFont ==
    \/ FontPlusButton
    \/ FontMinusButton
    \/ SaveSettingsCommit

\* an open Reader whose A+ and A- buttons are pressed
SpecFont == InitFont /\ [][NextFont]_vars

InitReader ==
    /\ apiVariant = "part_001"
    /\ apiPc = "idle"
    /\ apiKeyword = <<>>
    /\ uniqueIds = {}
    /\ results = <<>>
    /\ apiResponse = NoResponse
    /\ upstreamCalls = 0
    /\ dbBooks = {StBook(<<"1">>), StBook(<<"2">>), CorruptBook(<<"3">>)}
    /\ dbNotes = {}
    /\ dbSettings = {}
    /\ gsPc = "idle"
    /\ gsQuery = <<>>
    /\ gsNotes = <<>>
    /\ gsResult = <<>>
    /\ sfVariant = "storageService"
    /\ sfPc = "idle"
    /\ sfQuery = <<>>
    /\ sfResponse = NoFetch
    /\ sfReturn = NoReturn
    /\ clock = 0
    /\ books = DbGetAll(dbBooks)
    /\ imports = EmptyBag
    /\ downloads = EmptyBag
    /\ isLoading = FALSE
    /\ alertMsg = "none"
    /\ currentView = "library"
    /\ activeBook = <<>>
    /\ settings = DefaultSettings
    /\ settingsWrites = <<>>
    /\ loadPc = "done"
    /\ loaded = [books |-> <<>>, settings |-> DefaultSettings]
    /\ lastSaved = <<>>
    /\ restarts = 0
    /\ searchQuery = <<>>
    /\ debounce = FALSE
    /\ searches = EmptyBag
    /\ searchResults = <<>>
    /\ externalResults = <<>>
    /\ isSearching = FALSE
    /\ shownQuery = <<>>
    /\ readerVariant \in ReaderVariants
    /\ mounted = FALSE
    /\ loading = TRUE
    /\ errorMsg = ""
    /\ bookInstance = "none"
    /\ displayPc = "none"
    /\ rendered = {}
    /\ liveInstances = 0
    /\ selectionMenu = <<>>
    /\ saveCalls = EmptyBag
    /\ saveOutcome = "none"
    /\ storeAvailable = TRUE
    /\ uncaught = {}
    /\ dlVariant = "download"
    /\ dlPc = "idle"
    /\ dlUrl = <<>>
    /\ dlUpstream = NoUpstream
    /\ dlResponse = NoDlResponse
    /\ applied = <<>>
    /\ captured = <<>>

NextReader ==
    \/ \E i \in DOMAIN books : HandleOpenBook(books[i])
    \/ \E o \in InitOutcomes : ReaderInit(o)
    \/ ReaderDisplayOk
    \/ ReaderDisplayFail
    \/ ReaderClose

\* reading sessions over a catalog that holds a record without data
SpecReader == InitReader /\ [][NextReader]_vars

InitAnnotate ==
    /\ apiVariant = "part_001"
    /\ apiPc = "idle"
    /\ apiKeyword = <<>>
    /\ uniqueIds = {}
    /\ results = <<>>
    /\ apiResponse = NoResponse
    /\ upstreamCalls = 0
    /\ dbBooks = {StBook(<<"1">>)}
    /\ dbNotes = {}
    /\ dbSettings = {}
    /\ gsPc = "idle"
    /\ gsQuery = <<>>
    /\ gsNotes = <<>>
    /\ gsResult = <<>>
    /\ sfVariant = "storageService"
    /\ sfPc = "idle"
    /\ sfQuery = <<>>
    /\ sfResponse = NoFetch
    /\ sfReturn = NoReturn
    /\ clock = 0
    /\ books = DbGetAll(dbBooks)
    /\ imports = EmptyBag
    /\ downloads = EmptyBag
    /\ isLoading = FALSE
    /\ alertMsg = "none"
    /\ currentView = "library"
    /\ activeBook = <<>>
    /\ settings = DefaultSettings
    /\ settingsWrites = <<>>
    /\ loadPc = "done"
    /\ loaded = [books |-> <<>>, settings |-> DefaultSettings]
    /\ lastSaved = <<>>
    /\ restarts = 0
    /\ searchQuery = <<>>
    /\ debounce = FALSE
    /\ searches = EmptyBag
    /\ searchResults = <<>>
    /\ externalResults = <<>>
    /\ isSearching = FALSE
    /\ shownQuery = <<>>
    /\ readerVariant \in ReaderVariants
    /\ mounted = FALSE
    /\ loading = TRUE
    /\ errorMsg = ""
    /\ bookInstance = "none"
    /\ displayPc = "none"
    /\ rendered = {}
    /\ liveInstances = 0
    /\ selectionMenu = <<>>
    /\ saveCalls = EmptyBag
    /\ saveOutcome = "none"
    /\ storeAvailable = TRUE
    /\ uncaught = {}
    /\ dlVariant = "download"
    /\ dlPc = "idle"
    /\ dlUrl = <<>>
    /\ dlUpstream = NoUpstream
    /\ dlResponse = NoDlResponse
    /\ applied = <<>>
    /\ captured = <<>>

NextAnnotate ==
    \/ \E i \in DOMAIN books : HandleOpenBook(books[i])
    \/ ReaderInit("ok")
    \/ ReaderDisplayOk
    \/ ReaderClose
    \/ \E sel \in Selections : ReaderSelected(sel)
    \/ ReaderClick
    \/ \E type \in {"highlight", "note"}, input \in PromptResults : HandleSaveAnnotation(type, input)
    \/ \E t \in BagToSet(saveCalls) : SaveNotePut(t)
    \/ \E t \in BagToSet(saveCalls) : SaveNotePutFails(t)
    \/ \E t \in BagToSet(saveCalls) : SaveNoteSyncOk(t)
    \/ \E t \in BagToSet(saveCalls) : SaveNoteSyncFails(t)

\* selecting and annotating in reading sessions of one book, within one
\* value of Date.now(): the notes get the same id and a put replaces the
\* note stored before
SpecAnnotate == InitAnnotate /\ [][NextAnnotate]_vars

InitDegraded ==
    /\ apiVariant = "part_001"
    /\ apiPc = "idle"
    /\ apiKeyword = <<>>
    /\ uniqueIds = {}
    /\ results = <<>>
    /\ apiResponse = NoResponse
    /\ upstreamCalls = 0
    /\ dbBooks = {StBook(<<"1">>)}
    /\ dbNotes = {}
    /\ dbSettings = DbPutSettings({}, [DefaultSettings EXCEPT !.theme = "dark"])
    /\ gsPc = "idle"
    /\ gsQuery = <<>>
    /\ gsNotes = <<>>
    /\ gsResult = <<>>
    /\ sfVariant = "storageService"
    /\ sfPc = "idle"
    /\ sfQuery = <<>>
    /\ sfResponse = NoFetch
    /\ sfReturn = NoReturn
    /\ clock = 0
    /\ books = <<>>
    /\ imports = EmptyBag
    /\ downloads = EmptyBag
    /\ isLoading = FALSE
    /\ alertMsg = "none"
    /\ currentView = "library"
    /\ activeBook = <<>>
    /\ settings = DefaultSettings
    /\ settingsWrites = <<>>
    /\ loadPc = "getBooks"
    /\ loaded = [books |-> <<>>, settings |-> DefaultSettings]
    /\ lastSaved = <<>>
    /\ restarts = 0
    /\ searchQuery = <<>>
    /\ debounce = FALSE
    /\ searches = EmptyBag
    /\ searchResults = <<>>
    /\ externalResults = <<>>
    /\ isSearching = FALSE
    /\ shownQuery = <<>>
    /\ readerVariant = "Reader_1"
    /\ mounted = FALSE
    /\ loading = TRUE
    /\ errorMsg = ""
    /\ bookInstance = "none"
    /\ displayPc = "none"
    /\ rendered = {}
    /\ liveInstances = 0
    /\ selectionMenu = <<>>
    /\ saveCalls = EmptyBag
    /\ saveOutcome = "none"
    /\ storeAvailable = FALSE
    /\ uncaught = {}
    /\ dlVariant = "download"
    /\ dlPc = "idle"
    /\ dlUrl = <<>>
    /\ dlUpstream = NoUpstream
    /\ dlResponse = NoDlResponse
    /\ applied = <<>>
    /\ captured = <<>>

NextDegraded ==
    \/ LoadDataRejects
    \/ HandleSearchClick
    \/ HandleAddBook(<<1>>)
    \/ \E t \in BagToSet(imports) : AddBookOnload(t)
    \/ \E t \in BagToSet(imports) : AddBookStoreRejects(t)
    \/ \E e \in ExternalBooks : HandleDownloadAndAdd(e, TRUE)
    \/ \E t \in BagToSet(downloads), b \in ResponseBodies : DownloadBodyRead(t, b)
    \/ \E t \in BagToSet(downloads) : DownloadFailed(t)

\* the App started with a store that does not open: the stored book and the
\* stored settings are there but cannot be read
SpecDegraded == InitDegraded /\ [][NextDegraded]_vars

InitDownloadApi ==
    /\ apiVariant = "part_001"
    /\ apiPc = "idle"
    /\ apiKeyword = <<>>
    /\ uniqueIds = {}
    /\ results = <<>>
    /\ apiResponse = NoResponse
    /\ upstreamCalls = 0
    /\ dbBooks = {}
    /\ dbNotes = {}
    /\ dbSettings = {}
    /\ gsPc = "idle"
    /\ gsQuery = <<>>
    /\ gsNotes = <<>>
    /\ gsResult = <<>>
    /\ sfVariant = "storageService"
    /\ sfPc = "idle"
    /\ sfQuery = <<>>
    /\ sfResponse = NoFetch
    /\ sfReturn = NoReturn
    /\ clock = 0
    /\ books = <<>>
    /\ imports = EmptyBag
    /\ downloads = EmptyBag
    /\ isLoading = FALSE
    /\ alertMsg = "none"
    /\ currentView = "library"
    /\ activeBook = <<>>
    /\ settings = DefaultSettings
    /\ settingsWrites = <<>>
    /\ loadPc = "done"
    /\ loaded = [books |-> <<>>, settings |-> DefaultSettings]
    /\ lastSaved = <<>>
    /\ restarts = 0
    /\ searchQuery = <<>>
    /\ debounce = FALSE
    /\ searches = EmptyBag
    /\ searchResults = <<>>
    /\ externalResults = <<>>
    /\ isSearching = FALSE
    /\ shownQuery = <<>>
    /\ readerVariant = "Reader_1"
    /\ mounted = FALSE
    /\ loading = TRUE
    /\ errorMsg = ""
    /\ bookInstance = "none"
    /\ displayPc = "none"
    /\ rendered = {}
    /\ liveInstances = 0
    /\ selectionMenu = <<>>
    /\ saveCalls = EmptyBag
    /\ saveOutcome = "none"
    /\ storeAvailable = TRUE
    /\ uncaught = {}
    /\ dlVariant \in DlVariants
    /\ dlPc = "idle"
    /\ dlUrl = <<>>
    /\ dlUpstream = NoUpstream
    /\ dlResponse = NoDlResponse
    /\ applied = <<>>
    /\ captured = <<>>

NextDownloadApi ==
    \/ \E param \in UrlParams : DlRequest(param)
    \/ \E file \in UpstreamFiles : DlUpstreamOk(file)
    \/ \E cause \in DlFailures(dlVariant), arrived \in PartialBytes \cup {<<>>} :
           DlUpstreamFails(cause, arrived)

\* the download endpoint serving requests
SpecDownloadApi == InitDownloadApi /\ [][NextDownloadApi]_vars

InitJoin ==
    /\ apiVariant = "part_001"
    /\ apiPc = "idle"
    /\ apiKeyword = <<>>
    /\ uniqueIds = {}
    /\ results = <<>>
    /\ apiResponse = NoResponse
    /\ upstreamCalls = 0
    /\ dbBooks = {StBook(<<"1">>)}
    /\ dbNotes = { [id |-> <<"3">>, bookId |-> <<"1">>, text |-> <<"A", "b">>, annotation |-> <<>>],
                 [id |-> <<"4">>, bookId |-> <<"1">>, text |-> <<"a">>, annotation |-> <<"b", "B">>] }
    /\ dbSettings = {}
    /\ gsPc = "idle"
    /\ gsQuery = <<>>
    /\ gsNotes = <<>>
    /\ gsResult = <<>>
    /\ sfVariant = "storageService"
    /\ sfPc = "idle"
    /\ sfQuery = <<>>
    /\ sfResponse = NoFetch
    /\ sfReturn = NoReturn
    /\ clock = 0
    /\ books = DbGetAll(dbBooks)
    /\ imports = EmptyBag
    /\ downloads = EmptyBag
    /\ isLoading = FALSE
    /\ alertMsg = "none"
    /\ currentView = "search"
    /\ activeBook = <<>>
    /\ settings = DefaultSettings
    /\ settingsWrites = <<>>
    /\ loadPc = "done"
    /\ loaded = [books |-> <<>>, settings |-> DefaultSettings]
    /\ lastSaved = <<>>
    /\ restarts = 0
    /\ searchQuery = <<>>
    /\ debounce = FALSE
    /\ searches = EmptyBag
    /\ searchResults = <<>>
    /\ externalResults = <<>>
    /\ isSearching = FALSE
    /\ shownQuery = <<>>
    /\ readerVariant = "Reader_1"
    /\ mounted = FALSE
    /\ loading = TRUE
    /\ errorMsg = ""
    /\ bookInstance = "none"
    /\ displayPc = "none"
    /\ rendered = {}
    /\ liveInstances = 0
    /\ selectionMenu = <<>>
    /\ saveCalls = EmptyBag
    /\ saveOutcome = "none"
    /\ storeAvailable = TRUE
    /\ uncaught = {}
    /\ dlVariant = "download"
    /\ dlPc = "idle"
    /\ dlUrl = <<>>
    /\ dlUpstream = NoUpstream
    /\ dlResponse = NoDlResponse
    /\ applied = <<>>
    /\ captured = <<>>

NextJoin ==
    \/ \E q \in SearchQueries : SetSearchQuery(q)
    \/ PerformSearchCalls
    \/ \E t \in BagToSet(searches) : SearchNotesSettles(t)
    \/ \E t \in BagToSet(searches) :
          \E o \in SearchFreeBooksResults(t.query) : SearchBooksSettles(t, o)
    \/ \E t \in BagToSet(searches) : SearchNotesRejects(t)
    \/ \E t \in BagToSet(searches) : PerformSearchJoin(t)

\* the search effect with the two calls of a search settling one by one
SpecJoin == InitJoin /\ [][NextJoin]_vars

InitTheme ==
    /\ apiVariant = "part_001"
    /\ apiPc = "idle"
    /\ apiKeyword = <<>>
    /\ uniqueIds = {}
    /\ results = <<>>
    /\ apiResponse = NoResponse
    /\ upstreamCalls = 0
    /\ dbBooks = {StBook(<<"1">>)}
    /\ dbNotes = {}
    /\ dbSettings = {}
    /\ gsPc = "idle"
    /\ gsQuery = <<>>
    /\ gsNotes = <<>>
    /\ gsResult = <<>>
    /\ sfVariant = "storageService"
    /\ sfPc = "idle"
    /\ sfQuery = <<>>
    /\ sfResponse = NoFetch
    /\ sfReturn = NoReturn
    /\ clock = 0
    /\ books = DbGetAll(dbBooks)
    /\ imports = EmptyBag
    /\ downloads = EmptyBag
    /\ isLoading = FALSE
    /\ alertMsg = "none"
    /\ currentView = "library"
    /\ activeBook = <<>>
    /\ settings = DefaultSettings
    /\ settingsWrites = <<>>
    /\ loadPc = "done"
    /\ loaded = [books |-> <<>>, settings |-> DefaultSettings]
    /\ lastSaved = <<>>
    /\ restarts = 0
    /\ searchQuery = <<>>
    /\ debounce = FALSE
    /\ searches = EmptyBag
    /\ searchResults = <<>>
    /\ externalResults = <<>>
    /\ isSearching = FALSE
    /\ shownQuery = <<>>
    /\ readerVariant = "Reader_1"
    /\ mounted = FALSE
    /\ loading = TRUE
    /\ errorMsg = ""
    /\ bookInstance = "none"
    /\ displayPc = "none"
    /\ rendered = {}
    /\ liveInstances = 0
    /\ selectionMenu = <<>>
    /\ saveCalls = EmptyBag
    /\ saveOutcome = "none"
    /\ storeAvailable = TRUE
    /\ uncaught = {}
    /\ dlVariant = "download"
    /\ dlPc = "idle"
    /\ dlUrl = <<>>
    /\ dlUpstream = NoUpstream
    /\ dlResponse = NoDlResponse
    /\ applied = <<>>
    /\ captured = <<>>

NextTheme ==
    \/ \E i \in DOMAIN books : HandleOpenBook(books[i])
    \/ \E o \in InitOutcomes : ReaderInit(o)
    \/ ReaderDisplayOk
    \/ ReaderDisplayFail
    \/ ReaderClose
    \/ \E t \in ThemeTypes : ThemeButton(t)
    \/ FontPlusButton
    \/ FontMinusButton
    \/ SaveSettingsCommit

\* reading sessions during which the theme and the font size are changed
SpecTheme == InitTheme /\ [][NextTheme]_vars

InitPlaceholder ==
    /\ apiVariant = "part_001"
    /\ apiPc = "idle"
    /\ apiKeyword = <<>>
    /\ uniqueIds = {}
    /\ results = <<>>
    /\ apiResponse = NoResponse
    /\ upstreamCalls = 0
    /\ dbBooks = {}
    /\ dbNotes = {}
    /\ dbSettings = {}
    /\ gsPc = "idle"
    /\ gsQuery = <<>>
    /\ gsNotes = <<>>
    /\ gsResult = <<>>
    /\ sfVariant \in SfVariants
    /\ sfPc = "idle"
    /\ sfQuery = <<>>
    /\ sfResponse = NoFetch
    /\ sfReturn = NoReturn
    /\ clock = 0
    /\ books = <<>>
    /\ imports = EmptyBag
    /\ downloads = EmptyBag
    /\ isLoading = FALSE
    /\ alertMsg = "none"
    /\ currentView = "search"
    /\ activeBook = <<>>
    /\ settings = DefaultSettings
    /\ settingsWrites = <<>>
    /\ loadPc = "done"
    /\ loaded = [books |-> <<>>, settings |-> DefaultSettings]
    /\ lastSaved = <<>>
    /\ restarts = 0
    /\ searchQuery = <<>>
    /\ debounce = FALSE
    /\ searches = EmptyBag
    /\ searchResults = <<>>
    /\ externalResults = <<>>
    /\ isSearching = FALSE
    /\ shownQuery = <<>>
    /\ readerVariant = "Reader_1"
    /\ mounted = FALSE
    /\ loading = TRUE
    /\ errorMsg = ""
    /\ bookInstance = "none"
    /\ displayPc = "none"
    /\ rendered = {}
    /\ liveInstances = 0
    /\ selectionMenu = <<>>
    /\ saveCalls = EmptyBag
    /\ saveOutcome = "none"
    /\ storeAvailable = TRUE
    /\ uncaught = {}
    /\ dlVariant = "download"
    /\ dlPc = "idle"
    /\ dlUrl = <<>>
    /\ dlUpstream = NoUpstream
    /\ dlResponse = NoDlResponse
    /\ applied = <<>>
    /\ captured = <<>>

NextPlaceholder ==
    \/ \E q \in SfQueries : SearchFreeBooksCall(q)
    \/ \E c \in {"network", "abort"} : SearchFreeBooksFetchRejects(c)
    \/ \E r \in Responses : SearchFreeBooksFetchResolves(r)
    \/ SearchFreeBooksJsonSettles
    \/ /\ sfPc = "done"
       /\ downloads = EmptyBag
       /\ \E i \in DOMAIN sfReturn.value, c \in BOOLEAN :
              HandleDownloadAndAdd(sfReturn.value[i], c)
    \/ \E t \in BagToSet(downloads) : DownloadFailed(t)
    \/ \E t \in BagToSet(downloads), b \in ResponseBodies : DownloadBodyRead(t, b)
    \/ \E t \in BagToSet(downloads) : DownloadSaved(t)
    \/ \E t \in BagToSet(downloads) : DownloadListed(t)

\* searches for free books, and one-click downloads of what the last
\* finished search returned, asked for one at a time
SpecPlaceholder == InitPlaceholder /\ [][NextPlaceholder]_vars

InitSearch ==
    /\ apiVariant = "part_001"
    /\ apiPc = "idle"
    /\ apiKeyword = <<>>
    /\ uniqueIds = {}
    /\ results = <<>>
    /\ apiResponse = NoResponse
    /\ upstreamCalls = 0
    /\ dbBooks = {StBook(<<"1">>)}
    /\ dbNotes = { [id |-> <<"3">>, bookId |-> <<"1">>, text |-> <<"A", "b">>, annotation |-> <<>>],
                 [id |-> <<"4">>, bookId |-> <<"1">>, text |-> <<"a">>, annotation |-> <<"b", "B">>] }
    /\ dbSettings = {}
    /\ gsPc = "idle"
    /\ gsQuery = <<>>
    /\ gsNotes = <<>>
    /\ gsResult = <<>>
    /\ sfVariant = "storageService"
    /\ sfPc = "idle"
    /\ sfQuery = <<>>
    /\ sfResponse = NoFetch
    /\ sfReturn = NoReturn
    /\ clock = 0
    /\ books = DbGetAll(dbBooks)
    /\ imports = EmptyBag
    /\ downloads = EmptyBag
    /\ isLoading = FALSE
    /\ alertMsg = "none"
    /\ currentView = "library"
    /\ activeBook = <<>>
    /\ settings = DefaultSettings
    /\ settingsWrites = <<>>
    /\ loadPc = "done"
    /\ loaded = [books |-> <<>>, settings |-> DefaultSettings]
    /\ lastSaved = <<>>
    /\ restarts = 0
    /\ searchQuery = <<>>
    /\ debounce = TRUE
    /\ searches = EmptyBag
    /\ searchResults = <<>>
    /\ externalResults = <<>>
    /\ isSearching = FALSE
    /\ shownQuery = <<>>
    /\ readerVariant = "Reader_1"
    /\ mounted = FALSE
    /\ loading = TRUE
    /\ errorMsg = ""
    /\ bookInstance = "none"
    /\ displayPc = "none"
    /\ rendered = {}
    /\ liveInstances = 0
    /\ selectionMenu = <<>>
    /\ saveCalls = EmptyBag
    /\ saveOutcome = "none"
    /\ storeAvailable = TRUE
    /\ uncaught = {}
    /\ dlVariant = "download"
    /\ dlPc = "idle"
    /\ dlUrl = <<>>
    /\ dlUpstream = NoUpstream
    /\ dlResponse = NoDlResponse
    /\ applied = <<>>
    /\ captured = <<>>

NextSearch ==
    \/ HandleSearchClick
    \/ \E q \in SearchQueries : SetSearchQuery(q)
    \/ PerformSearchStart
    \/ \E t \in BagToSet(searches) :
          \E o \in SearchFreeBooksResults(t.query) : PerformSearchPublish(t, o)
    \/ \E t \in BagToSet(searches) : PerformSearchFail(t)

\* the search overlay: typing, debounce, searches in flight
SpecSearch == InitSearch /\ [][NextSearch]_vars

InitFreeBooks ==
    /\ apiVariant = "part_001"
    /\ apiPc = "idle"
    /\ apiKeyword = <<>>
    /\ uniqueIds = {}
    /\ results = <<>>
    /\ apiResponse = NoResponse
    /\ upstreamCalls = 0
    /\ dbBooks = {}
    /\ dbNotes = {}
    /\ dbSettings = {}
    /\ gsPc = "idle"
    /\ gsQuery = <<>>
    /\ gsNotes = <<>>
    /\ gsResult = <<>>
    /\ sfVariant \in SfVariants
    /\ sfPc = "idle"
    /\ sfQuery = <<>>
    /\ sfResponse = NoFetch
    /\ sfReturn = NoReturn
    /\ clock = 0
    /\ books = <<>>
    /\ imports = EmptyBag
    /\ downloads = EmptyBag
    /\ isLoading = FALSE
    /\ alertMsg = "none"
    /\ currentView = "library"
    /\ activeBook = <<>>
    /\ settings = DefaultSettings
    /\ settingsWrites = <<>>
    /\ loadPc = "done"
    /\ loaded = [books |-> <<>>, settings |-> DefaultSettings]
    /\ lastSaved = <<>>
    /\ restarts = 0
    /\ searchQuery = <<>>
    /\ debounce = FALSE
    /\ searches = EmptyBag
    /\ searchResults = <<>>
    /\ externalResults = <<>>
    /\ isSearching = FALSE
    /\ shownQuery = <<>>
    /\ readerVariant = "Reader_1"
    /\ mounted = FALSE
    /\ loading = TRUE
    /\ errorMsg = ""
    /\ bookInstance = "none"
    /\ displayPc = "none"
    /\ rendered = {}
    /\ liveInstances = 0
    /\ selectionMenu = <<>>
    /\ saveCalls = EmptyBag
    /\ saveOutcome = "none"
    /\ storeAvailable = TRUE
    /\ uncaught = {}
    /\ dlVariant = "download"
    /\ dlPc = "idle"
    /\ dlUrl = <<>>
    /\ dlUpstream = NoUpstream
    /\ dlResponse = NoDlResponse
    /\ applied = <<>>
    /\ captured = <<>>

NextFreeBooks ==
    \/ \E q \in SfQueries : SearchFreeBooksCall(q)
    \/ \E c \in {"network", "abort"} : SearchFreeBooksFetchRejects(c)
    \/ \E r \in Responses : SearchFreeBooksFetchResolves(r)
    \/ SearchFreeBooksJsonSettles

\* calls of searchFreeBooks against every way its fetch may settle
SpecFreeBooks == InitFreeBooks /\ [][NextFreeBooks]_vars

----------------------------------------------------------------------------
(* Properties of the storage service *)

SameLetter(c, d) ==
    \/ c = d
    \/ \E i \in DOMAIN UpperChars : {c, d} = {UpperChars[i], LowerChars[i]}

\* q occurs in s when the case of letters is ignored
ContainsIgnoringCase(s, q) ==
    \E off \in 0..(Len(s) - Len(q)) :
        \A j \in 1..Len(q) : SameLetter(s[off + j], q[j])

NoteContains(n, q) ==
    ContainsIgnoringCase(n.text, q) \/ ContainsIgnoringCase(n.annotation, q)

SearchReturns == gsPc = "getBooks" /\ gsPc' = "done"

\* C2: deleting a book leaves every note in the store, and a global search
\* that matches a note of a book no longer stored still returns that note,
\* with its book field undefined.
C2_OrphanNotesSurvive ==
    [][ /\ (IdsOf(dbBooks') # IdsOf(dbBooks) /\ IdsOf(dbBooks') \subseteq IdsOf(dbBooks))
            => dbNotes' = dbNotes
        /\ SearchReturns =>
              \A i \in DOMAIN gsNotes :
                  (NoteContains(gsNotes[i], gsQuery) /\ gsNotes[i].bookId \notin IdsOf(dbBooks))
                     => \E k \in DOMAIN gsResult' :
                           gsResult'[k] = [note |-> gsNotes[i], book |-> <<>>] ]_vars

\* a search has returned a stored note whose book was deleted
C2_Witness ==
    /\ gsPc = "done"
    /\ \E k \in DOMAIN gsResult :
          /\ gsResult[k].book = <<>>
          /\ gsResult[k].note \in dbNotes
          /\ gsResult[k].note.bookId \notin IdsOf(dbBooks)

\* C3: searchGlobalNotes reads all the stored notes and returns exactly those
\* whose excerpt or annotation contains the query, case ignored: each matching
\* note once, no other note, nothing that was not stored.
C3_SearchExactlyMatching ==
    [][ /\ (gsPc # "getBooks" /\ gsPc' = "getBooks") =>
              /\ {gsNotes'[i] : i \in DOMAIN gsNotes'} = dbNotes
              /\ Len(gsNotes') = Cardinality(dbNotes)
        /\ SearchReturns =>
              /\ \A i \in DOMAIN gsNotes :
                    Cardinality({k \in DOMAIN gsResult' : gsResult'[k].note = gsNotes[i]})
                       = IF NoteContains(gsNotes[i], gsQuery) THEN 1 ELSE 0
              /\ \A k \in DOMAIN gsResult' :
                    \E i \in DOMAIN gsNotes : gsResult'[k].note = gsNotes[i] ]_vars

\* of two stored notes a search returned one, matched through its annotation
\* and across a difference of case
C3_Witness ==
    /\ gsPc = "done"
    /\ Cardinality(dbNotes) = 2
    /\ Len(gsResult) = 1
    /\ gsResult[1].note \in dbNotes
    /\ gsQuery = <<"B">>
    /\ ~Includes(gsResult[1].note.text, gsQuery)
    /\ ~Includes(ToLowerCase(gsResult[1].note.text), ToLowerCase(gsQuery))

----------------------------------------------------------------------------
(* Properties of the search endpoint *)

\* C6: a 200 response of the search endpoint carries at most five entries,
\* with pairwise distinct ids, none built from an identifier that begins
\* with "audio".
C6_SearchResultPolicy ==
    (apiPc = "done" /\ apiResponse.status = 200) =>
        LET body == apiResponse.body IN
        /\ Len(body) <= SearchCap
        /\ \A i, j \in DOMAIN body : body[i].id = body[j].id => i = j
        /\ \A i \in DOMAIN body : ~StartsWith(body[i].id, STR_haodoo \o STR_audio)

\* C14: a 200 response holds no fabricated entry: each entry of the body was
\* built from an identifier extracted from the upstream page, so a page that
\* yields no identifier is answered with an empty list.
C14_NoFabricatedEntry ==
    (apiPc = "done" /\ apiResponse.status = 200) =>
        /\ \A i \in DOMAIN apiResponse.body :
               \E bookId \in uniqueIds : apiResponse.body[i].id = STR_haodoo \o bookId
        /\ (uniqueIds = {} => apiResponse.body = <<>>)

\* the fields of a record of the result array
EntryFields == {"id", "title", "author", "source", "downloadUrl"}

\* 400 for a missing keyword, with no upstream request made
Answer400 ==
    /\ apiResponse.status = 400
    /\ apiKeyword = <<>>
    /\ upstreamCalls = 0
    /\ apiResponse.error # <<>> /\ apiResponse.body = <<>>

\* 500 with error and details
Answer500 ==
    /\ apiResponse.status = 500
    /\ apiKeyword # <<>>
    /\ apiResponse.error # <<>> /\ apiResponse.details # <<>> /\ apiResponse.body = <<>>

\* 200 with an array of records of the five fields
Answer200 ==
    /\ apiResponse.status = 200
    /\ apiKeyword # <<>>
    /\ apiResponse.error = <<>> /\ apiResponse.details = <<>>
    /\ \A i \in DOMAIN apiResponse.body : DOMAIN apiResponse.body[i] = EntryFields

\* C22: nothing is sent before the handler is done; when it is done it has
\* sent 400 for a missing keyword without an upstream request, or 500 with
\* error and details, or 200 with an array of five-field records; a failed
\* or timed-out upstream fetch is answered with the 500 that carries its
\* message, and a keyword that is present is never answered with 400.
C22_SearchEndpointAnswers ==
    /\ [](apiPc # "done" => apiResponse = NoResponse)
    /\ [](apiPc = "done" => (Answer400 \/ Answer500 \/ Answer200))
    /\ [][ \A c \in UpstreamFailures : ApiUpstreamFail(c) =>
               (apiResponse'.status = 500 /\ apiResponse'.details = <<c>>) ]_vars
    /\ [][ apiResponse'.status = 500 /\ apiResponse.status # 500 =>
               \E c \in UpstreamFailures : ApiUpstreamFail(c) ]_vars

\* the upstream fetch ran into the 8 s timeout and the request was answered
C22_Witness ==
    /\ apiPc = "done"
    /\ Answer500
    /\ apiResponse.details = <<"timeout of 8000ms exceeded">>

----------------------------------------------------------------------------
(* Properties of placeholder entries *)

\* the finished call did not return the body of the endpoint's answer
SearchFellBack ==
    /\ sfPc = "done"
    /\ ~(/\ sfResponse.settled = "response"
         /\ ResponseAccepted(sfVariant, sfResponse)
         /\ sfResponse.body # "html")

\* C30: every entry searchFreeBooks returns when its request failed carries
\* the downloadUrl "#"; a download of any entry of such a result starts no
\* download call and changes neither the store nor the catalog, and no
\* download call in flight is one for an entry with the downloadUrl "#".
C30_PlaceholdersNeverDownload ==
    /\ [](SearchFellBack =>
              \A i \in DOMAIN sfReturn.value : sfReturn.value[i].downloadUrl = STR_hash)
    /\ [][ SearchFellBack =>
              \A i \in DOMAIN sfReturn.value, c \in BOOLEAN :
                  HandleDownloadAndAdd(sfReturn.value[i], c) =>
                      /\ alertMsg' = "preview"
                      /\ UNCHANGED <<downloads, dbBooks, books, isLoading>> ]_vars
    /\ [](\A t \in BagToSet(downloads) : t.eb.downloadUrl # STR_hash)

\* after a real entry was downloaded, a search failed, three placeholders
\* came back and the download of one of them was asked for
C30_Witness ==
    /\ SearchFellBack
    /\ Len(sfReturn.value) = 3
    /\ alertMsg = "preview"
    /\ downloads = EmptyBag
    /\ dbBooks # {}
    /\ Len(books) = Cardinality(dbBooks)

----------------------------------------------------------------------------
(* Properties of the download endpoint *)

\* C23: a request without a usable url is answered 400 with no upstream
\* request made; an upstream failure is answered 500 with a text and no
\* bytes, whatever part of the file had arrived; a response with a success
\* status exists only for an upstream fetch that resolved, and it carries
\* all of the upstream bytes as application/epub+zip.
C23_DownloadEndpointAnswers ==
    /\ [](dlPc # "done" => dlResponse = NoDlResponse)
    /\ [](dlPc = "done" /\ UrlRejected(dlUrl) =>
              (dlResponse.status = 400 /\ dlUpstream = NoUpstream /\ dlResponse.body = <<>>))
    /\ [](dlPc = "done" /\ dlUpstream.kind = "failed" =>
              /\ dlResponse.status = 500
              /\ dlResponse.message # ""
              /\ dlResponse.body = <<>>)
    /\ [](dlPc = "done" /\ ~UrlRejected(dlUrl) => dlResponse.status \in {200, 500})
    /\ [](dlResponse.status = 200 =>
              /\ dlUpstream.kind = "ok"
              /\ dlResponse.body = dlUpstream.bytes
              /\ dlResponse.contentType = "application/epub+zip"
              /\ dlResponse.disposition = "attachment")

\* a transfer broke off after two of three bytes and the request was answered
C23_Witness ==
    /\ dlPc = "done"
    /\ dlUpstream.kind = "failed"
    /\ dlUpstream.bytes = <<1, 2>>
    /\ dlResponse.status = 500

----------------------------------------------------------------------------
(* Properties of searchFreeBooks *)

\* the fetch failed, was aborted, or brought a non-OK or non-JSON response
SearchFailed ==
    \/ sfResponse.settled \in {"network", "abort"}
    \/ sfResponse.settled = "response" /\ (~sfResponse.ok \/ sfResponse.body = "html")

\* the entry says what it is: its source names no catalog
LabelledPlaceholder(e) == e.source \in {STR_Demo, STR_System}

\* C15: searchFreeBooks never rejects, and when its request failed (network
\* failure, abort, non-OK or non-JSON response) it resolves to the empty
\* list or to entries each of which is labelled as a placeholder.
C15_FailureGivesLabelledPlaceholders ==
    /\ sfReturn.kind # "rejected"
    /\ (sfPc = "done" /\ SearchFailed) =>
          /\ sfReturn.kind = "resolved"
          /\ \A i \in DOMAIN sfReturn.value : LabelledPlaceholder(sfReturn.value[i])

----------------------------------------------------------------------------
(* Properties of the catalog handlers *)

\* C1: each import adds one record to the store, holding the bytes of the
\* imported file under an id no stored record had before, so that the store
\* holds one record more after it: also for imports within one clock tick.
C1_ImportAddsFreshRecord ==
    [][ \A t \in BagToSet(imports) :
            AddBookSaved(t) =>
                /\ t.book.id \notin IdsOf(dbBooks)
                /\ t.book.data.bytes = t.bytes
                /\ t.book \in dbBooks'
                /\ Cardinality(dbBooks') = Cardinality(dbBooks) + 1 ]_vars

\* C4: handleDownloadAndAdd on an entry whose downloadUrl is "#" reports the
\* 'not a real source' condition (the "preview" alert, which is not the
\* "failed" alert of a download) and nothing else happens: no fetch is
\* started, the loading flag is not set, the catalog and the store are unchanged.
C4_SentinelRejected ==
    [][ \A eb \in ExternalBooks, c \in BOOLEAN :
            (eb.downloadUrl = STR_hash /\ HandleDownloadAndAdd(eb, c)) =>
                /\ alertMsg' = "preview"
                /\ UNCHANGED <<isLoading, downloads, books, dbBooks>> ]_vars

\* the sentinel entry was clicked while nothing was in flight
C4_Witness ==
    /\ alertMsg = "preview"
    /\ ~isLoading
    /\ downloads = EmptyBag
    /\ \E eb \in ExternalBooks : eb.downloadUrl = STR_hash

\* C10: while the loading flag is set no step starts another download.
C10_DownloadsExclusive ==
    [][ isLoading => BagCardinality(downloads') <= BagCardinality(downloads) ]_vars

\* C11: every handleDownloadAndAdd call that set the loading flag clears it
\* when it ends, whichever way it ends (success alert or failure alert); a
\* set flag is eventually cleared; and whenever no download is in flight the
\* flag is false.
C11_LoadingFlagCleared ==
    /\ [](downloads = EmptyBag => ~isLoading)
    /\ [][ BagCardinality(downloads') < BagCardinality(downloads) =>
               (~isLoading' /\ alertMsg' \in {"success", "failed"}) ]_vars
    /\ [](isLoading => <>(~isLoading))

\* a download failed, its call has ended and the flag is down again
C11_Witness ==
    /\ alertMsg = "failed"
    /\ downloads = EmptyBag
    /\ ~isLoading
    /\ dbBooks = {}

C13_FailedDownloadAddsNothing ==
    /\ [][ \A t \in BagToSet(downloads) :
               (t.pc = "fetching" /\ DownloadFailed(t)) =>
                   /\ alertMsg' = "failed"
                   /\ alertMsg' \notin {"success", "preview"}
                   /\ UNCHANGED <<dbBooks, books>> ]_vars
    /\ [](\A b \in dbBooks : b.data.present /\ b.data.bytes \in ResponseBodies)

\* one download succeeded, a later one failed: the catalog holds the first only
C13_Witness ==
    /\ alertMsg = "failed"
    /\ downloads = EmptyBag
    /\ Cardinality(dbBooks) = 1
    /\ Len(books) = 1
    /\ books[1] \in dbBooks

----------------------------------------------------------------------------
(* Properties of the settings *)

\* C5: the settings of the last saveSettings whose put committed are exactly
\* what getSettings returns (theme, fontSize and fontFamily), whatever else
\* happened since, a restart included; and once startup loading is done and
\* no update is pending they are the settings the App holds.
C5_SettingsRoundTrip ==
    /\ lastSaved # <<>> => GetSettings(dbSettings) = lastSaved[1]
    /\ (lastSaved # <<>> /\ loadPc = "done" /\ settingsWrites = <<>>)
          => settings = lastSaved[1]

\* settings other than the defaults were saved, the page was loaded again
\* and startup loading brought them back
C5_Witness ==
    /\ restarts = 1
    /\ loadPc = "done"
    /\ currentView = "library"
    /\ settingsWrites = <<>>
    /\ lastSaved # <<>>
    /\ lastSaved[1].theme # DefaultSettings.theme
    /\ lastSaved[1].fontSize # DefaultSettings.fontSize
    /\ settings = lastSaved[1]

\* the record under 'current' holds exactly these settings
Persisted(s) == \E e \in dbSettings : e.key = "current" /\ e.value = s

\* C26: while writes are pending the settings in memory are those of the
\* newest pending write, and once no write is pending the record in the
\* store is the settings in memory, whatever the number of writes that were
\* pending together and whenever each of them committed.  (A reload of the
\* page drops the pending writes; it does not complete them.)
C26_LastUpdateWinsInBoth ==
    /\ [](settingsWrites # <<>> => settings = settingsWrites[Len(settingsWrites)])
    /\ [](settingsWrites = <<>> /\ loadPc = "done" /\ dbSettings # {} => Persisted(settings))
    /\ [][ settingsWrites' = <<>> /\ settingsWrites # <<>> /\ restarts' = restarts =>
              Persisted(settings)' /\ settings' = settings ]_vars

\* two different writes are pending together, after an earlier one committed
C26_Witness ==
    /\ Len(settingsWrites) = 2
    /\ settingsWrites[1] # settingsWrites[2]
    /\ lastSaved # <<>>
    /\ ~Persisted(settingsWrites[1])
    /\ ~Persisted(settings)

\* C7: from a font size within 80..180 every A+ / A- step yields a size
\* within 80..180: A+ sets min(180, fontSize + 10), so 110 from 100 and 180
\* from 175, and A- sets max(80, fontSize - 10); what is queued for the store
\* is that size.
C7_FontSizeClamped ==
    [][ /\ settings'.fontSize \in 80..180
        /\ \A i \in DOMAIN settingsWrites' : settingsWrites'[i].fontSize \in 80..180
        /\ FontPlusButton =>
              /\ settings'.fontSize =
                    IF settings.fontSize + 10 > 180 THEN 180 ELSE settings.fontSize + 10
              /\ settings.fontSize = 100 => settings'.fontSize = 110
              /\ settings.fontSize = 175 => settings'.fontSize = 180
        /\ FontMinusButton =>
              settings'.fontSize =
                    IF settings.fontSize - 10 < 80 THEN 80 ELSE settings.fontSize - 10 ]_vars

\* A+ was pressed at 175: the size is 180 and its write is pending
C7_Witness ==
    /\ GetSettings(dbSettings).fontSize = 175
    /\ settings.fontSize = 180
    /\ settingsWrites = <<settings>>

----------------------------------------------------------------------------
(* Properties of the reading session *)

SessionMoves ==
    { <<"Closed", "Opening">>, <<"Opening", "Ready">>, <<"Opening", "Error">>,
      <<"Opening", "Closed">>, <<"Ready", "Closed">>, <<"Error", "Closed">> }

\* the rendering capability rejected the content in this step
ContentRejected ==
    \/ \E o \in {"ePubThrows", "renderToThrows"} : ReaderInit(o)
    \/ ReaderDisplayFail

\* C16: a session moves only along Closed -> Opening -> Ready -> Closed with
\* Error entered from Opening only; a step in which ePub or renderTo throws
\* or display() rejects ends in Error with a message, never in Ready; and
\* in Error the close is available.
C16_RejectedContentGivesError ==
    /\ [][ SessionState' # SessionState =>
               <<SessionState, SessionState'>> \in SessionMoves ]_vars
    /\ [][ ContentRejected => (SessionState' = "Error" /\ errorMsg' # "") ]_vars
    /\ [](SessionState = "Error" => ENABLED ReaderClose)

\* C17: in each of the states Opening, Ready and Error a close control is
\* there to be activated, and every close leaves no live rendering instance
\* (one that was created has been destroyed), no active book, and the
\* library as the current view.
C17_CloseFromEveryState ==
    /\ [](SessionState \in {"Opening", "Ready", "Error"} => ENABLED ReaderClose)
    /\ [][ ReaderClose =>
             /\ bookInstance = "live" => bookInstance' = "destroyed"
             /\ liveInstances' = 0
             /\ activeBook' = <<>>
             /\ currentView' = "library"
             /\ SessionState' = "Closed" ]_vars

\* a session that had created a rendering instance was closed
C17_Witness ==
    /\ SessionState = "Closed"
    /\ bookInstance = "destroyed"
    /\ liveInstances = 0
    /\ currentView = "library"
    /\ activeBook = <<>>

\* C18: at most one rendering instance is live at any time, and a step
\* that creates one starts from a state in which none is live: the instance
\* of the session before has been destroyed by then.
C18_OneLiveInstance ==
    /\ [](liveInstances <= 1)
    /\ [][ liveInstances' > liveInstances => liveInstances = 0 ]_vars

\* the second book is being read after the first was closed
C18_Witness ==
    /\ liveInstances = 1
    /\ bookInstance = "live"
    /\ Cardinality(rendered) = 2

----------------------------------------------------------------------------
(* Properties of annotating *)

\* a saveNote call whose store write has succeeded settles in this step
SettlesAfterWrite(t) ==
    /\ BagIn(t, saveCalls)
    /\ t.pc = "sync"
    /\ saveCalls' = Without(saveCalls, t)

StartedCalls == {t \in BagToSet(saveCalls') : t.pc = "put" /\ t.attached /\
                     CopiesIn(t, saveCalls') > CopiesIn(t, saveCalls)}

\* the step is a confirmation: one of the two buttons of the selection,
\* and for a note a prompt that was not cancelled
Confirmation ==
    \E type \in {"highlight", "note"}, input \in PromptResults :
        /\ ~(type = "note" /\ input = <<>>)
        /\ HandleSaveAnnotation(type, input)

\* C20: a selection only becomes the pending candidate (cfi and text) and
\* writes nothing; a note enters the store only through a saveNote call,
\* and a call is started only by a confirmation made while a candidate is
\* pending, for the cfi and text of that candidate; a cancelled prompt, a
\* click and a close start no call and write nothing.
C20_NoteOnlyAfterConfirmation ==
    /\ [][ \A sel \in Selections : ReaderSelected(sel) =>
               /\ selectionMenu' = <<sel>>
               /\ dbNotes' = dbNotes
               /\ StartedCalls = {} ]_vars
    /\ [][ dbNotes' # dbNotes =>
               \E t \in BagToSet(saveCalls) :
                   t.pc = "put" /\ dbNotes' = DbPut(dbNotes, t.note) ]_vars
    /\ [][ \A t \in StartedCalls :
               /\ Confirmation
               /\ selectionMenu # <<>>
               /\ t.note.cfi = selectionMenu[1].cfi
               /\ t.note.text = selectionMenu[1].text ]_vars
    /\ [][ (HandleSaveAnnotation("note", <<>>) \/ ReaderClick \/ ReaderClose) =>
               (dbNotes' = dbNotes /\ StartedCalls = {}) ]_vars

\* of two passages the second was confirmed with a note text: its note is
\* in the store, none is for the first, and the candidate is cleared
C20_Witness ==
    /\ selectionMenu = <<>>
    /\ saveOutcome = "resolved"
    /\ \E n \in dbNotes : n.cfi = "cfi(/6/8)" /\ n.annotation = <<"o">>
    /\ \A n \in dbNotes : n.cfi # "cfi(/6/4)"

----------------------------------------------------------------------------
(* Properties of the settings in the Reader *)

\* C25: when the settings change while the session has a rendition, the new
\* theme and font size are applied to that rendition in the same step; the
\* book instance is neither destroyed nor created, and the session state
\* stays what it was.
C25_SettingsAppliedInPlace ==
    [][ settings' # settings /\ HasRendition =>
           /\ applied' = <<Look(settings')>>
           /\ UNCHANGED <<mounted, bookInstance, liveInstances, rendered, displayPc>>
           /\ SessionState' = SessionState ]_vars

\* a shown book whose look is not the default one, in its first instance
C25_Witness ==
    /\ SessionState = "Ready"
    /\ applied = <<[theme |-> "dark", fontSize |-> 110]>>
    /\ settings.theme = "dark"
    /\ bookInstance = "live"
    /\ liveInstances = 1

\* C27: whenever the session is Ready, the theme and the font size applied
\* to the rendition are those of the current settings, also when the
\* settings changed while the session was Opening.
C27_ReadyShowsCurrentSettings ==
    SessionState = "Ready" /\ HasRendition => applied = <<Look(settings)>>

----------------------------------------------------------------------------
(* Properties of the App without its store *)

\* the catalog is empty and the settings are the defaults
DegradedStartup == books = <<>> /\ settings = DefaultSettings

\* the library view is there to be used: the Reader is not shown and the
\* search view can be opened and closed
Navigable == currentView # "reader" /\ ENABLED HandleSearchClick

\* C21: with a store that cannot be opened the app shows an empty catalog
\* and the default settings, no rejection of a store call is left without
\* a handler, and the library view stays navigable.
C21_StoreFailureDegrades ==
    /\ [](~storeAvailable => DegradedStartup)
    /\ [](~storeAvailable => uncaught = {})
    /\ [](~storeAvailable => Navigable)

----------------------------------------------------------------------------
(* Properties of the search effect *)

\* C28: isSearching is true in every state in which a search is in flight,
\* two overlapping searches included, and false in every state in which
\* none is.
C28_SearchingIffInFlight == isSearching <=> searches # EmptyBag

\* the query as performSearch tests it
ShortQuery(query) == Len(Trim(query)) < 2

\* C29: for a query whose trimmed length is below 2 performSearch starts no
\* search and clears both result sets, and the result sets, once empty,
\* stay empty for as long as the query stays short, also when a search
\* started for an earlier query completes in the meantime.
C29_ShortQueryShowsNothing ==
    /\ [][ PerformSearchStart /\ ShortQuery(searchQuery) =>
              /\ searches' = searches
              /\ searchResults' = <<>>
              /\ externalResults' = <<>> ]_vars
    /\ [][ /\ ShortQuery(searchQuery) /\ ShortQuery(searchQuery')
           /\ searchResults = <<>> /\ externalResults = <<>>
           => searchResults' = <<>> /\ externalResults' = <<>> ]_vars

\* the two calls of search t have both been made
BothStarted(t) == t.notes.st \in {"pending", "done"} /\ t.online.st \in {"pending", "done"}

\* the shown result sets change in this step
ResultsChange == searchResults' # searchResults \/ externalResults' # externalResults

\* C24: for a query of two or more characters the note search and the
\* network search are both started before either is awaited, and the two
\* result sets are published in one step that comes after both have
\* completed: no result set changes while a call of the search is pending,
\* other than by the clearing for a short query or by another search's join.
C24_JoinedBeforeShown ==
    /\ [](\A t \in BagToSet(searches) : Len(Trim(t.query)) >= 2 /\ BothStarted(t))
    /\ [][ ResultsChange =>
             \/ /\ Len(Trim(searchQuery)) < 2
                /\ searchResults' = <<>> /\ externalResults' = <<>>
             \/ \E t \in BagToSet(searches) :
                    /\ t.notes.st = "done" /\ t.online.st = "done"
                    /\ searchResults' = t.notes.value
                    /\ externalResults' = t.online.value
                    /\ searches' = Without(searches, t) ]_vars

\* one call of a search has completed, the other has not, and nothing of
\* that search is shown
C24_Witness ==
    \E t \in BagToSet(searches) :
        /\ t.notes.st = "done"
        /\ t.notes.value # <<>>
        /\ t.online.st = "pending"
        /\ searchResults = <<>>
        /\ isSearching

\* C9: a search publishes its results (setSearchResults, setExternalResults)
\* only if the query it was started for is still the current query: the
\* result of an older query is discarded once the query has changed.
C9_PublishOnlyIfCurrent ==
    [][ \A t \in BagToSet(searches) :
            \A o \in SearchFreeBooksResults(t.query) :
                PerformSearchPublish(t, o) => t.query = searchQuery ]_vars

============================================================================
